---- MODULE Spec2Model ----
(***************************************************************************)
(* Model of reshade::d3d10::runtime_d3d10 (source/d3d10/runtime_d3d10.cpp): *)
(* the Direct3D 10 effect runtime.  The state is the runtime object's      *)
(* fields, the technique and texture tables it attaches GPU-side state to,  *)
(* and the part of the device the code observes (objects created, queries   *)
(* issued).  Every handler is one action.                                   *)
(*                                                                          *)
(* COM objects are modelled by handles: records that carry the kind of the  *)
(* object, what it was created for and, for views, the resource behind it   *)
(* (what ID3D10View::GetResource returns).  A null com_ptr is NULL.         *)
(***************************************************************************)
EXTENDS Integers, Sequences, FiniteSets, TLC

NULL == [kind |-> "null"]

(***************************************************************************)
(* Bounds of the model.                                                     *)
(***************************************************************************)
\* timestamp pairs one technique implementation may issue
MaxPairs == 3
\* shader resource views update_depthstencil_texture may create
MaxDepthViews == 1
\* init_effect calls between two unload_effects
MaxLoads == 2
\* clear operations the tracker has recorded for the current depth buffer
MaxClears == 2

(***************************************************************************)
(* Integer helpers.                                                         *)
(***************************************************************************)
RECURSIVE Xor(_, _)
Xor(a, b) ==
    IF a = 0 THEN b
    ELSE IF b = 0 THEN a
    ELSE (((a % 2) + (b % 2)) % 2) + 2 * Xor(a \div 2, b \div 2)

\* little-endian bytes of a 32-bit unsigned value below 2^31
U32(n) == << n % 256, (n \div 256) % 256, (n \div 65536) % 256, n \div 16777216 >>

\* a UINT as two limbs of 16 bits, least significant first
UINT(n) == << n % 65536, n \div 65536 >>

\* std::numeric_limits<UINT>::max()
UINT_MAX == << 65535, 65535 >>

\* the clear index override of a new runtime (the member initializer of the
\* class declaration)
depth_clear_index_override_default == UINT_MAX

Range(f) == { f[i] : i \in DOMAIN f }

\* the element of a set of one element
The(S) == CHOOSE x \in S : TRUE

(***************************************************************************)
(* The sampler description hash of init_effect:                             *)
(*     size_t desc_hash = 2166136261;                                       *)
(*     for each byte b of desc: desc_hash = (desc_hash * 16777619) ^ b;     *)
(* size_t arithmetic wraps, so the value is kept as SizeTLimbs limbs of 16  *)
(* bits, least significant first (4 limbs: the 64-bit build; the low two    *)
(* limbs are the value the 32-bit build computes).                          *)
(***************************************************************************)
SizeTLimbs == 4

Limb(h, i) == IF i >= 1 /\ i <= Len(h) THEN h[i] ELSE 0

\* limb i of h << 24
Shl24(h, i) == (Limb(h, i - 1) % 256) * 256 + (Limb(h, i - 2) \div 256)

\* limbs i.. of h * 16777619 (= h * 403 + (h << 24)), truncated to Len(h) limbs
RECURSIVE MulPrime(_, _, _)
MulPrime(h, i, carry) ==
    IF i > Len(h) THEN << >>
    ELSE LET t == h[i] * 403 + Shl24(h, i) + carry
         IN  << t % 65536 >> \o MulPrime(h, i + 1, t \div 65536)

hash_offset == << 40389, 33052 >> \o [i \in 1..(SizeTLimbs - 2) |-> 0]

\* one round: (h * 16777619) ^ b
hash_step(h, b) ==
    LET m == MulPrime(h, 1, 0)
    IN  [m EXCEPT ![1] = (m[1] \div 256) * 256 + Xor((m[1] % 256), b)]

\* the loop over the bytes of the description, from byte i on, four rounds
\* at a time while four bytes are left (the test on n makes the rounds' value
\* be computed before the next rounds start)
RECURSIVE hash_bytes(_, _, _)
hash_bytes(h, bytes, i) ==
    IF i > Len(bytes) THEN h
    ELSE LET k == IF i + 3 <= Len(bytes) THEN 4 ELSE 1
             n == IF k = 4
                  THEN hash_step(hash_step(hash_step(hash_step(h, bytes[i]), bytes[i + 1]),
                                           bytes[i + 2]), bytes[i + 3])
                  ELSE hash_step(h, bytes[i])
         IN  IF Len(n) = 0 THEN n ELSE hash_bytes(n, bytes, i + k)

\* D3D10_COMPARISON_NEVER
D3D10_COMPARISON_NEVER == 1

\* the bytes of the D3D10_SAMPLER_DESC init_effect fills in for a sampler_info:
\* Filter, AddressU, AddressV, AddressW, MipLODBias, MaxAnisotropy = 1,
\* ComparisonFunc = NEVER, BorderColor[4] = 0 (the desc is zero-initialised),
\* MinLOD, MaxLOD.  The three floats are given by their IEEE-754 bytes.
sampler_desc(info) ==
    U32(info.filter) \o U32(info.address_u) \o U32(info.address_v) \o U32(info.address_w)
    \o info.lod_bias \o U32(1) \o U32(D3D10_COMPARISON_NEVER)
    \o [i \in 1..16 |-> 0]
    \o info.min_lod \o info.max_lod

desc_hash(desc) == hash_bytes(hash_offset, desc, 1)

(***************************************************************************)
(* Formats.  make_dxgi_format_srgb/normal/typeless live in                  *)
(* ../dxgi/format_utils.hpp: the sRGB variant of a format that has one, the *)
(* plain variant of a typeless or sRGB format, the typeless variant of a    *)
(* typed format; every other format is returned unchanged.                  *)
(***************************************************************************)
make_dxgi_format_srgb(format) ==
    CASE format \in {"R8G8B8A8_TYPELESS", "R8G8B8A8_UNORM"} -> "R8G8B8A8_UNORM_SRGB"
      [] format \in {"B8G8R8A8_TYPELESS", "B8G8R8A8_UNORM"} -> "B8G8R8A8_UNORM_SRGB"
      [] OTHER -> format

make_dxgi_format_normal(format) ==
    CASE format \in {"R8G8B8A8_TYPELESS", "R8G8B8A8_UNORM_SRGB"} -> "R8G8B8A8_UNORM"
      [] format \in {"B8G8R8A8_TYPELESS", "B8G8R8A8_UNORM_SRGB"} -> "B8G8R8A8_UNORM"
      [] OTHER -> format

make_dxgi_format_typeless(format) ==
    CASE format \in {"R8G8B8A8_UNORM", "R8G8B8A8_UNORM_SRGB"} -> "R8G8B8A8_TYPELESS"
      [] format \in {"B8G8R8A8_UNORM", "B8G8R8A8_UNORM_SRGB"} -> "B8G8R8A8_TYPELESS"
      [] OTHER -> format

\* reshadefx::texture_format
TextureFormats ==
    { "r8", "r16f", "r32f", "rg8", "rg16", "rg16f", "rg32f",
      "rgba8", "rgba16", "rgba16f", "rgba32f", "rgb10a2" }

\* the switch (texture.format) of init_texture
texture_dxgi_format(format) ==
    CASE format = "r8"      -> "R8_UNORM"
      [] format = "r16f"    -> "R16_FLOAT"
      [] format = "r32f"    -> "R32_FLOAT"
      [] format = "rg8"     -> "R8G8_UNORM"
      [] format = "rg16"    -> "R16G16_UNORM"
      [] format = "rg16f"   -> "R16G16_FLOAT"
      [] format = "rg32f"   -> "R32G32_FLOAT"
      [] format = "rgba8"   -> "R8G8B8A8_TYPELESS"
      [] format = "rgba16"  -> "R16G16B16A16_UNORM"
      [] format = "rgba16f" -> "R16G16B16A16_FLOAT"
      [] format = "rgba32f" -> "R32G32B32A32_FLOAT"
      [] format = "rgb10a2" -> "R10G10B10A2_UNORM"

\* the swap chain formats on_init is given
BackbufferFormats == { "R8G8B8A8_UNORM", "R8G8B8A8_UNORM_SRGB", "B8G8R8A8_UNORM", "R10G10B10A2_UNORM" }

(***************************************************************************)
(* Handles.                                                                 *)
(***************************************************************************)
Resource(id)        == [kind |-> "resource", id |-> id]
SRV(res, format, n) == [kind |-> "srv", res |-> res, format |-> format, n |-> n]
RTV(res, format)    == [kind |-> "rtv", res |-> res, format |-> format]
Object(kind, desc, n) == [kind |-> kind, desc |-> desc, n |-> n]
Query(t, which)     == [kind |-> "query", technique |-> t, query |-> which]

\* ID3D10View::GetResource
GetResource(view) == view.res

\* a bag of device events: how often each happened
Count(bag, key) == IF key \in DOMAIN bag THEN bag[key] ELSE 0
Record(bag, key) ==
    [k \in DOMAIN bag \cup {key} |-> IF k = key THEN Count(bag, key) + 1 ELSE bag[k]]
EmptyBag == [k \in {} |-> 0]

(***************************************************************************)
(* The effect set the runtime is given: the tables runtime (the base class) *)
(* fills from the compiled modules before it calls init_texture and         *)
(* init_effect.  Effect and binding indices count from 0 as in the code; a  *)
(* vector element i is element i + 1 of the sequence that models it.        *)
(***************************************************************************)
D3D10_SIMULTANEOUS_RENDER_TARGET_COUNT == 8
D3D10_COMMONSHADER_SAMPLER_SLOT_COUNT == 16
D3D10_COMMONSHADER_INPUT_RESOURCE_SLOT_COUNT == 128

F32_ZERO    == << 0, 0, 0, 0 >>
F32_MAX     == << 255, 255, 127, 127 >>
F32_NEG_MAX == << 255, 255, 127, 255 >>

\* sampler configurations (filter, address modes, LOD bias, min/max LOD)
\* CfgA: linear filtering, clamp, the default LOD range
CfgA == [filter |-> 21, address_u |-> 3, address_v |-> 3, address_w |-> 3,
         lod_bias |-> F32_ZERO, min_lod |-> F32_NEG_MAX, max_lod |-> F32_MAX]
\* CfgB: MipLODBias = 1.2990774, MinLOD = 1.1916298, MaxLOD = 2.0579872
CfgB == [CfgA EXCEPT !.lod_bias = << 43, 72, 166, 63 >>,
                     !.min_lod  = << 83, 135, 152, 63 >>,
                     !.max_lod  = << 16, 182, 3, 64 >>]
\* CfgC: MipLODBias = 1.2886597, MinLOD = 1.2271996, MaxLOD = 2.0078886
CfgC == [CfgA EXCEPT !.lod_bias = << 205, 242, 164, 63 >>,
                     !.min_lod  = << 224, 20, 157, 63 >>,
                     !.max_lod  = << 63, 129, 0, 64 >>]
\* CfgD: CfgA with AddressU = wrap
CfgD == [CfgA EXCEPT !.address_u = 1]

SamplerConfigs == { CfgA, CfgB, CfgC, CfgD }

\* reshadefx::sampler_info
Sampler(unique_name, binding, texture_binding, texture_name, srgb, cfg) ==
    [unique_name |-> unique_name, binding |-> binding, texture_binding |-> texture_binding,
     texture_name |-> texture_name, srgb |-> srgb,
     filter |-> cfg.filter, address_u |-> cfg.address_u, address_v |-> cfg.address_v,
     address_w |-> cfg.address_w, lod_bias |-> cfg.lod_bias,
     min_lod |-> cfg.min_lod, max_lod |-> cfg.max_lod]

\* the configuration of a sampler_info
ConfigOf(info) ==
    [filter |-> info.filter, address_u |-> info.address_u, address_v |-> info.address_v,
     address_w |-> info.address_w, lod_bias |-> info.lod_bias,
     min_lod |-> info.min_lod, max_lod |-> info.max_lod]

NoTargets == [k \in 1..D3D10_SIMULTANEOUS_RENDER_TARGET_COUNT |-> ""]
Targets(names) ==
    [k \in 1..D3D10_SIMULTANEOUS_RENDER_TARGET_COUNT |-> IF k <= Len(names) THEN names[k] ELSE ""]

\* reshadefx::pass_info
Pass(vs, ps, names, srgb_write_enable, blend_enable, stencil_enable, vw, vh) ==
    [vs_entry_point |-> vs, ps_entry_point |-> ps,
     render_target_names |-> Targets(names),
     srgb_write_enable |-> srgb_write_enable, clear_render_targets |-> FALSE,
     blend_enable |-> blend_enable,
     src_blend |-> "src_alpha", dest_blend |-> "inv_src_alpha", blend_op |-> "add",
     src_blend_alpha |-> "one", dest_blend_alpha |-> "zero", blend_op_alpha |-> "add",
     color_write_mask |-> 15,
     stencil_enable |-> stencil_enable, stencil_read_mask |-> 255, stencil_write_mask |-> 255,
     stencil_op_fail |-> "keep", stencil_op_depth_fail |-> "keep", stencil_op_pass |-> "replace",
     stencil_comparison_func |-> "always", stencil_reference_value |-> 1,
     viewport_width |-> vw, viewport_height |-> vh, num_vertices |-> 3]

\* the dimensions of the swap chain and of the textures the effects declare
OutputWidth  == 4
OutputHeight == 4
TextureSize  == 2

EffectIndices == 0..1

\* effect: the compiled module and the uniform storage of each effect
EffectTable(index) ==
    CASE index = 0 ->
         [entry_points |-> << [name |-> "vs0", is_pixel_shader |-> FALSE],
                              [name |-> "ps0", is_pixel_shader |-> TRUE] >>,
          uniform_data_storage |-> 16,
          num_sampler_bindings |-> 3, num_texture_bindings |-> 3,
          samplers |-> << Sampler("sT", 0, 0, "T", FALSE, CfgA),
                          Sampler("sD", 1, 1, "D", FALSE, CfgB),
                          Sampler("sT2", 2, 2, "T", FALSE, CfgA) >>]
      [] index = 1 ->
         [entry_points |-> << [name |-> "vs1", is_pixel_shader |-> FALSE],
                              [name |-> "ps1", is_pixel_shader |-> TRUE] >>,
          uniform_data_storage |-> 0,
          num_sampler_bindings |-> 3, num_texture_bindings |-> 3,
          samplers |-> << Sampler("sTs", 0, 0, "T", TRUE, CfgC),
                          Sampler("sB", 1, 1, "B", TRUE, CfgA),
                          Sampler("sRw", 2, 2, "R", FALSE, CfgD) >>]
      \* an effect whose second sampler is declared at sampler slot 16
      [] index = 2 ->
         [entry_points |-> << [name |-> "vs2", is_pixel_shader |-> FALSE],
                              [name |-> "ps2", is_pixel_shader |-> TRUE] >>,
          uniform_data_storage |-> 0,
          num_sampler_bindings |-> 17, num_texture_bindings |-> 2,
          samplers |-> << Sampler("sT", 0, 0, "T", FALSE, CfgA),
                          Sampler("sHigh", 16, 1, "T", FALSE, CfgD) >>]
      \* an effect whose second sampler is declared at texture slot 128
      [] index = 3 ->
         [entry_points |-> << [name |-> "vs3", is_pixel_shader |-> FALSE],
                              [name |-> "ps3", is_pixel_shader |-> TRUE] >>,
          uniform_data_storage |-> 0,
          num_sampler_bindings |-> 2, num_texture_bindings |-> 129,
          samplers |-> << Sampler("sT", 0, 0, "T", FALSE, CfgA),
                          Sampler("sFar", 1, 128, "T", FALSE, CfgD) >>]
      \* an effect without samplers whose technique tests the stencil in
      \* several passes
      [] index = 4 ->
         [entry_points |-> << [name |-> "vs4", is_pixel_shader |-> FALSE],
                              [name |-> "ps4", is_pixel_shader |-> TRUE] >>,
          uniform_data_storage |-> 0,
          num_sampler_bindings |-> 0, num_texture_bindings |-> 0,
          samplers |-> << >>]

TechniqueIds == 1..6

\* technique: the owning effect and the passes of each technique, in the
\* order of the technique list
TechniqueTable(t) ==
    CASE t = 1 -> [effect_index |-> 0,
                   passes |-> << Pass("vs0", "ps0", << "T" >>, FALSE, TRUE, FALSE, TextureSize, TextureSize),
                                 Pass("vs0", "ps0", << >>, FALSE, TRUE, TRUE, 0, 0) >>]
      [] t = 2 -> [effect_index |-> 1,
                   passes |-> << Pass("vs1", "ps1", << >>, FALSE, TRUE, TRUE, 0, 0) >>]
      [] t = 3 -> [effect_index |-> 1,
                   passes |-> << Pass("vs1", "ps1", << "T" >>, TRUE, FALSE, FALSE, TextureSize, TextureSize) >>]
      [] t = 4 -> [effect_index |-> 2,
                   passes |-> << Pass("vs2", "ps2", << >>, FALSE, FALSE, FALSE, 0, 0) >>]
      [] t = 5 -> [effect_index |-> 3,
                   passes |-> << Pass("vs3", "ps3", << >>, FALSE, FALSE, FALSE, 0, 0) >>]
      [] t = 6 -> [effect_index |-> 4,
                   passes |-> << Pass("vs4", "ps4", << "T" >>, FALSE, FALSE, TRUE, TextureSize, TextureSize),
                                 Pass("vs4", "ps4", << >>, FALSE, FALSE, FALSE, 0, 0),
                                 Pass("vs4", "ps4", << >>, FALSE, FALSE, TRUE, 0, 0),
                                 Pass("vs4", "ps4", << >>, FALSE, FALSE, TRUE, 0, 0) >>]

\* the textures the effects use
TextureNames == { "T", "R", "D", "B" }

\* the textures that are declared: those the effects use and, for every
\* texture format, a texture of that format that is named after it
DeclaredTextures == TextureNames \cup TextureFormats

\* texture: the declaration of each texture (impl_reference is
\* texture_reference::none, back_buffer or depth_buffer)
TextureTable(name) ==
    CASE name = "T" -> [unique_name |-> "T", impl_reference |-> "none", format |-> "rgba8",
                        width |-> TextureSize, height |-> TextureSize, levels |-> 1]
      [] name = "R" -> [unique_name |-> "R", impl_reference |-> "none", format |-> "r8",
                        width |-> TextureSize, height |-> TextureSize, levels |-> 2]
      [] name = "D" -> [unique_name |-> "D", impl_reference |-> "depth_buffer", format |-> "r32f",
                        width |-> OutputWidth, height |-> OutputHeight, levels |-> 1]
      [] name = "B" -> [unique_name |-> "B", impl_reference |-> "back_buffer", format |-> "rgba8",
                        width |-> OutputWidth, height |-> OutputHeight, levels |-> 1]
      [] OTHER -> [unique_name |-> name, impl_reference |-> "none", format |-> name,
                   width |-> TextureSize, height |-> TextureSize, levels |-> 1]

\* the depth-stencil textures the depth buffer tracker may select
DepthTextures == { Resource("depth1"), Resource("depth2") }

(***************************************************************************)
(* The state.                                                               *)
(***************************************************************************)
VARIABLES
    is_initialized,          \* runtime::_is_initialized
    width, height,           \* _width, _height
    backbuffer_format,       \* _backbuffer_format
    backbuffer,              \* _backbuffer
    backbuffer_resolved,     \* _backbuffer_resolved
    backbuffer_rtv,          \* _backbuffer_rtv[3]
    backbuffer_texture,      \* _backbuffer_texture
    backbuffer_texture_srv,  \* _backbuffer_texture_srv[2]
    copy_state,              \* _copy_vertex_shader, _copy_pixel_shader, _copy_sampler_state
    effect_depthstencil,     \* _effect_depthstencil
    effect_rasterizer,       \* _effect_rasterizer
    imgui,                   \* _imgui
    depth_texture,           \* _depth_texture
    depth_texture_srv,       \* _depth_texture_srv
    has_depth_texture,       \* _has_depth_texture
    depth_texture_override,  \* _depth_texture_override
    depth_views,             \* the number of views update_depthstencil_texture has created
    depth_clear_index_override, \* _depth_clear_index_override
    preserve_depth_buffers,  \* _preserve_depth_buffers
    current_tracker,         \* _current_tracker is set
    effect_data,             \* _effect_data
    effect_sampler_states,   \* _effect_sampler_states
    techniques,              \* _techniques
    textures,                \* _textures
    device,                  \* the state objects init_effect asked the device for since the
                             \* last unload_effects: a bag of creation calls
    loads,                   \* the number of init_effect calls since the last unload_effects
    d3d_compiler,            \* _d3d_compiler
    libraries,               \* the libraries LoadLibraryW finds at present
    gpu,                     \* the state of each technique's timestamp queries on the GPU
    call,                    \* what the last call of a handler did
    fault                    \* the process dereferenced null or indexed out of range

init_vars  == << is_initialized, width, height, backbuffer_format, backbuffer, backbuffer_resolved,
                 backbuffer_rtv, backbuffer_texture, backbuffer_texture_srv, copy_state,
                 effect_depthstencil, effect_rasterizer, imgui >>
tracker_vars == << depth_texture_override, depth_clear_index_override, preserve_depth_buffers,
                   current_tracker >>
depth_vars == << depth_texture, depth_texture_srv, has_depth_texture, depth_views, tracker_vars >>
effect_vars == << effect_data, effect_sampler_states, techniques, textures >>
compiler_vars == << d3d_compiler, libraries >>
vars == << init_vars, depth_vars, effect_vars, compiler_vars, device, loads, gpu, call, fault >>

\* d3d10_tex_data after construction
d3d10_tex_data == [texture |-> NULL, rtv |-> << NULL, NULL >>, srv |-> << NULL, NULL >>]

\* _imgui after construction and after on_reset
imgui_reset == [cb |-> NULL, vs |-> NULL, rs |-> NULL, ps |-> NULL, ss |-> NULL, bs |-> NULL,
                ds |-> NULL, layout |-> NULL, indices |-> NULL, vertices |-> NULL,
                num_indices |-> 0, num_vertices |-> 0]

copy_state_reset == [vertex_shader |-> NULL, pixel_shader |-> NULL, sampler_state |-> NULL]

\* the queries of a technique on the GPU: the number of timestamp pairs issued
\* so far, the last pair whose results were collected, the queries of the
\* outstanding pair whose results are available, and what the disjoint query
\* reports
gpu_idle(pair, collected) == [pair |-> pair, collected |-> collected, ready |-> {}, disjoint |-> FALSE]

\* the runtime after construction: nothing initialized, no effect loaded, the
\* texture and technique tables filled by the base class without any impl
Init ==
    /\ is_initialized = FALSE
    /\ width = 0 /\ height = 0
    /\ backbuffer_format = "UNKNOWN"
    /\ backbuffer = NULL
    /\ backbuffer_resolved = NULL
    /\ backbuffer_rtv = << NULL, NULL, NULL >>
    /\ backbuffer_texture = NULL
    /\ backbuffer_texture_srv = << NULL, NULL >>
    /\ copy_state = copy_state_reset
    /\ effect_depthstencil = NULL
    /\ effect_rasterizer = NULL
    /\ imgui = imgui_reset
    /\ depth_texture = NULL
    /\ depth_texture_srv = NULL
    /\ has_depth_texture = FALSE
    /\ depth_texture_override = NULL
    /\ depth_views = 0
    /\ depth_clear_index_override = depth_clear_index_override_default
    /\ preserve_depth_buffers = FALSE
    /\ current_tracker = FALSE
    /\ effect_data = << >>
    /\ effect_sampler_states = [h \in {} |-> NULL]
    /\ techniques = [t \in TechniqueIds |->
                       [effect_index |-> TechniqueTable(t).effect_index, impl |-> NULL,
                        average_gpu_duration |-> 0,
                        passes |-> [j \in 1..Len(TechniqueTable(t).passes) |->
                                      [viewport_width |-> TechniqueTable(t).passes[j].viewport_width,
                                       viewport_height |-> TechniqueTable(t).passes[j].viewport_height]]]]
    /\ textures = [n \in DeclaredTextures |-> [impl |-> NULL]]
    /\ device = EmptyBag
    /\ loads = 0
    /\ d3d_compiler = NULL
    /\ libraries = { "d3dcompiler_47.dll" }
    /\ gpu = [t \in TechniqueIds |-> gpu_idle(0, 0)]
    /\ call = [op |-> "none"]
    /\ fault = FALSE

(***************************************************************************)
(* on_init and on_reset.                                                    *)
(***************************************************************************)
\* the device calls of on_init that can fail, in the order on_init makes them
InitSteps == << "backbuffer_resolved", "backbuffer_texture", "srv0", "srv1", "rtv0", "rtv1",
                "copy_vertex_shader", "copy_pixel_shader", "copy_sampler_state",
                "effect_rasterizer", "effect_depthstencil_texture", "effect_depthstencil",
                "imgui_vs", "imgui_layout", "imgui_ps", "imgui_cb",
                "imgui_bs", "imgui_rs", "imgui_ds", "imgui_ss" >>

StepIndex(step) == CHOOSE i \in 1..Len(InitSteps) : InitSteps[i] = step

\* on_init uses an intermediate texture for the back buffer
uses_intermediate(format, sample_count, is_windows7) ==
    \/ sample_count > 1
    \/ make_dxgi_format_normal(format) # format
    \/ ~is_windows7

\* on_init returns false at the failing call 'fail': every result is checked
\* but that of the first CreateShaderResourceView, which the second overwrites
on_init_returns_at(fail) == fail \notin { "none", "srv0" }

\* the call 'step' of on_init was made and succeeded, when 'fail' is the call
\* that fails ("none": no call fails)
on_init_made(step, fail, intermediate) ==
    /\ step # fail
    /\ step = "backbuffer_resolved" => intermediate
    /\ on_init_returns_at(fail) => StepIndex(step) < StepIndex(fail)

\* runtime::on_init (the base class): the runtime is ready
runtime_on_init == TRUE

\* runtime::on_reset (the base class): the runtime is not ready any more
runtime_on_reset == FALSE

on_init(format, sample_count, is_windows7, fail) ==
    LET intermediate == uses_intermediate(format, sample_count, is_windows7)
        tex_format == make_dxgi_format_typeless(format)
        made(step) == on_init_made(step, fail, intermediate)
        new(step, handle) == IF made(step) THEN handle ELSE NULL
        resolved == IF intermediate THEN new("backbuffer_resolved", Resource("backbuffer_resolved"))
                    ELSE Resource("backbuffer")
        texture == new("backbuffer_texture", Resource("backbuffer_texture"))
        returned == on_init_returns_at(fail)
    IN  /\ ~fault
        /\ ~is_initialized
        /\ backbuffer = NULL
        /\ fail = "backbuffer_resolved" => intermediate
        /\ width' = OutputWidth /\ height' = OutputHeight
        /\ backbuffer_format' = format
        /\ backbuffer' = Resource("backbuffer")
        /\ backbuffer_resolved' = resolved
        /\ backbuffer_texture' = texture
        /\ backbuffer_texture_srv' =
             << new("srv0", SRV(texture, make_dxgi_format_normal(tex_format), 0)),
                new("srv1", SRV(texture, make_dxgi_format_srgb(tex_format), 1)) >>
        /\ backbuffer_rtv' =
             << new("rtv0", RTV(resolved, make_dxgi_format_normal(tex_format))),
                new("rtv1", RTV(resolved, make_dxgi_format_srgb(tex_format))),
                IF intermediate /\ made("backbuffer_resolved")
                THEN RTV(Resource("backbuffer"), "default") ELSE NULL >>
        /\ copy_state' = [vertex_shader |-> new("copy_vertex_shader", Object("vs", "fullscreen", 0)),
                          pixel_shader  |-> new("copy_pixel_shader", Object("ps", "copy", 0)),
                          sampler_state |-> new("copy_sampler_state", Object("sampler", "copy", 0))]
        /\ effect_rasterizer' = new("effect_rasterizer", Object("rasterizer", "effect", 0))
        /\ effect_depthstencil' =
             new("effect_depthstencil", [kind |-> "dsv", res |-> Resource("effect_depthstencil_texture")])
        /\ imgui' = [imgui EXCEPT !.vs = new("imgui_vs", Object("vs", "imgui", 0)),
                                  !.layout = new("imgui_layout", Object("layout", "imgui", 0)),
                                  !.ps = new("imgui_ps", Object("ps", "imgui", 0)),
                                  !.cb = new("imgui_cb", Object("buffer", "imgui", 0)),
                                  !.bs = new("imgui_bs", Object("blend", "imgui", 0)),
                                  !.rs = new("imgui_rs", Object("rasterizer", "imgui", 0)),
                                  !.ds = new("imgui_ds", Object("depthstencil", "imgui", 0)),
                                  !.ss = new("imgui_ss", Object("sampler", "imgui", 0))]
        /\ is_initialized' = IF returned THEN is_initialized ELSE runtime_on_init
        /\ call' = [op |-> "on_init", result |-> ~returned, fail |-> fail]
        /\ UNCHANGED << compiler_vars, depth_vars, effect_vars, device, loads, gpu, fault >>

\* the handles on_reset releases are all null
init_handles_null ==
    /\ backbuffer = NULL /\ backbuffer_resolved = NULL
    /\ backbuffer_rtv = << NULL, NULL, NULL >>
    /\ backbuffer_texture = NULL
    /\ backbuffer_texture_srv = << NULL, NULL >>
    /\ depth_texture = NULL /\ depth_texture_srv = NULL
    /\ copy_state = copy_state_reset
    /\ effect_depthstencil = NULL /\ effect_rasterizer = NULL
    /\ imgui = imgui_reset

\* on_reset that leaves the depth texture and its view alone
on_reset_depth_kept(texture) == texture

\* what on_reset leaves of a depth texture handle or of its view
on_reset_depth(texture) == NULL

on_reset ==
    /\ ~fault
    /\ is_initialized' = runtime_on_reset
    /\ backbuffer' = NULL
    /\ backbuffer_resolved' = NULL
    /\ backbuffer_rtv' = << NULL, NULL, NULL >>
    /\ backbuffer_texture' = NULL
    /\ backbuffer_texture_srv' = << NULL, NULL >>
    /\ depth_texture' = on_reset_depth(depth_texture)
    /\ depth_texture_srv' = on_reset_depth(depth_texture_srv)
    /\ copy_state' = copy_state_reset
    /\ effect_depthstencil' = NULL
    /\ effect_rasterizer' = NULL
    /\ imgui' = imgui_reset
    /\ has_depth_texture' = FALSE
    /\ depth_texture_override' = NULL
    /\ call' = [op |-> "on_reset", again |-> call.op = "on_reset"]
    /\ UNCHANGED << compiler_vars, width, height, backbuffer_format, depth_views, depth_clear_index_override,
                    preserve_depth_buffers, current_tracker, effect_vars, device, loads, gpu, fault >>

(***************************************************************************)
(* init_texture and destroy_texture.                                        *)
(***************************************************************************)
\* the device calls of init_texture that can fail
TextureSteps == << "texture", "srv0", "srv1" >>

\* srv[1] of an owned texture of the given DXGI format whose srv[0] exists:
\* a view of its own when the format has an sRGB variant, srv[0] otherwise
owned_srv1(tex, format, fail) ==
    IF make_dxgi_format_srgb(format) # format
    THEN IF fail = "srv1" THEN NULL ELSE SRV(tex, make_dxgi_format_srgb(format), 1)
    ELSE SRV(tex, make_dxgi_format_normal(format), 0)

\* the d3d10_tex_data init_texture builds for an owned texture
init_owned_texture(info, fail) ==
    LET format == texture_dxgi_format(info.format)
        tex == Resource(info.unique_name)
    IN  IF fail = "texture" THEN d3d10_tex_data
        ELSE IF fail = "srv0" THEN [d3d10_tex_data EXCEPT !.texture = tex]
        ELSE [d3d10_tex_data EXCEPT
                !.texture = tex,
                !.srv = << SRV(tex, make_dxgi_format_normal(format), 0), owned_srv1(tex, format, fail) >>]

\* init_texture returns true
init_texture_result(info, fail) ==
    \/ info.impl_reference # "none"
    \/ fail = "none"
    \/ fail = "srv1" /\ make_dxgi_format_srgb(texture_dxgi_format(info.format)) = texture_dxgi_format(info.format)

init_texture(name, fail) ==
    LET info == TextureTable(name)
        impl == CASE info.impl_reference = "back_buffer" ->
                       [d3d10_tex_data EXCEPT !.srv = << backbuffer_texture_srv[1], backbuffer_texture_srv[2] >>]
                  [] info.impl_reference = "depth_buffer" ->
                       [d3d10_tex_data EXCEPT !.srv = << depth_texture_srv, depth_texture_srv >>]
                  [] OTHER -> init_owned_texture(info, fail)
    IN  /\ ~fault
        /\ is_initialized
        /\ textures[name].impl = NULL
        /\ info.impl_reference # "none" => fail = "none"
        /\ fail = "srv1" =>
             make_dxgi_format_srgb(texture_dxgi_format(info.format)) # texture_dxgi_format(info.format)
        /\ textures' = [textures EXCEPT ![name].impl = impl]
        /\ call' = [op |-> "init_texture", name |-> name, result |-> init_texture_result(info, fail)]
        /\ UNCHANGED << compiler_vars, init_vars, depth_vars, effect_data, effect_sampler_states, techniques,
                        device, loads, gpu, fault >>

\* texture.impl after destroy_texture
destroy_texture_impl(impl) == NULL

destroy_texture(name) ==
    /\ ~fault
    /\ textures' = [textures EXCEPT ![name].impl = destroy_texture_impl(@)]
    /\ call' = [op |-> "destroy_texture", name |-> name,
                again |-> call.op = "destroy_texture" /\ call.name = name]
    /\ UNCHANGED << compiler_vars, init_vars, depth_vars, effect_data, effect_sampler_states, techniques,
                    device, loads, gpu, fault >>

(***************************************************************************)
(* init_effect.                                                             *)
(***************************************************************************)
\* a device or compiler call of init_effect that fails: the compilation or
\* the shader of entry point i, the constant buffer, the sampler state of
\* sampler i, the render target view k of pass j of technique i, the blend
\* or the depth-stencil state of pass j of technique i
FailAt(at, i, j, k) == [at |-> at, i |-> i, j |-> j, k |-> k]
NoFail == FailAt("none", 0, 0, 0)

convert_blend_op(value) ==
    CASE value = "subtract" -> "D3D10_BLEND_OP_SUBTRACT"
      [] value = "rev_subtract" -> "D3D10_BLEND_OP_REV_SUBTRACT"
      [] value = "min" -> "D3D10_BLEND_OP_MIN"
      [] value = "max" -> "D3D10_BLEND_OP_MAX"
      [] OTHER -> "D3D10_BLEND_OP_ADD"

convert_blend_func(value) ==
    CASE value = "zero" -> "D3D10_BLEND_ZERO"
      [] value = "src_color" -> "D3D10_BLEND_SRC_COLOR"
      [] value = "src_alpha" -> "D3D10_BLEND_SRC_ALPHA"
      [] value = "inv_src_color" -> "D3D10_BLEND_INV_SRC_COLOR"
      [] value = "inv_src_alpha" -> "D3D10_BLEND_INV_SRC_ALPHA"
      [] value = "dst_color" -> "D3D10_BLEND_DEST_COLOR"
      [] value = "dst_alpha" -> "D3D10_BLEND_DEST_ALPHA"
      [] value = "inv_dst_color" -> "D3D10_BLEND_INV_DEST_COLOR"
      [] value = "inv_dst_alpha" -> "D3D10_BLEND_INV_DEST_ALPHA"
      [] OTHER -> "D3D10_BLEND_ONE"

\* a blend descriptor that leaves out whether blending is enabled
blend_desc_without_enable(pass_info) ==
    [BlendEnable |-> FALSE,
     SrcBlend |-> convert_blend_func(pass_info.src_blend),
     DestBlend |-> convert_blend_func(pass_info.dest_blend),
     BlendOp |-> convert_blend_op(pass_info.blend_op),
     SrcBlendAlpha |-> convert_blend_func(pass_info.src_blend_alpha),
     DestBlendAlpha |-> convert_blend_func(pass_info.dest_blend_alpha),
     BlendOpAlpha |-> convert_blend_op(pass_info.blend_op_alpha),
     RenderTargetWriteMask |-> pass_info.color_write_mask]

\* the D3D10_BLEND_DESC of a pass (BlendEnable and RenderTargetWriteMask are
\* the same for all eight render targets)
blend_desc(pass_info) ==
    [BlendEnable |-> pass_info.blend_enable,
     SrcBlend |-> convert_blend_func(pass_info.src_blend),
     DestBlend |-> convert_blend_func(pass_info.dest_blend),
     BlendOp |-> convert_blend_op(pass_info.blend_op),
     SrcBlendAlpha |-> convert_blend_func(pass_info.src_blend_alpha),
     DestBlendAlpha |-> convert_blend_func(pass_info.dest_blend_alpha),
     BlendOpAlpha |-> convert_blend_op(pass_info.blend_op_alpha),
     RenderTargetWriteMask |-> pass_info.color_write_mask]

convert_stencil_op(value) ==
    CASE value = "zero" -> "D3D10_STENCIL_OP_ZERO"
      [] value = "invert" -> "D3D10_STENCIL_OP_INVERT"
      [] value = "replace" -> "D3D10_STENCIL_OP_REPLACE"
      [] value = "incr" -> "D3D10_STENCIL_OP_INCR"
      [] value = "incr_sat" -> "D3D10_STENCIL_OP_INCR_SAT"
      [] value = "decr" -> "D3D10_STENCIL_OP_DECR"
      [] value = "decr_sat" -> "D3D10_STENCIL_OP_DECR_SAT"
      [] OTHER -> "D3D10_STENCIL_OP_KEEP"

convert_stencil_func(value) ==
    CASE value = "never" -> "D3D10_COMPARISON_NEVER"
      [] value = "equal" -> "D3D10_COMPARISON_EQUAL"
      [] value = "not_equal" -> "D3D10_COMPARISON_NOT_EQUAL"
      [] value = "less" -> "D3D10_COMPARISON_LESS"
      [] value = "less_equal" -> "D3D10_COMPARISON_LESS_EQUAL"
      [] value = "greater" -> "D3D10_COMPARISON_GREATER"
      [] value = "greater_equal" -> "D3D10_COMPARISON_GREATER_EQUAL"
      [] OTHER -> "D3D10_COMPARISON_ALWAYS"

\* the D3D10_DEPTH_STENCIL_DESC of a pass (BackFace is a copy of FrontFace)
depth_stencil_desc(pass_info) ==
    LET face == [StencilFailOp |-> convert_stencil_op(pass_info.stencil_op_fail),
                 StencilDepthFailOp |-> convert_stencil_op(pass_info.stencil_op_depth_fail),
                 StencilPassOp |-> convert_stencil_op(pass_info.stencil_op_pass),
                 StencilFunc |-> convert_stencil_func(pass_info.stencil_comparison_func)]
    IN  [DepthEnable |-> FALSE, DepthWriteMask |-> "D3D10_DEPTH_WRITE_MASK_ZERO",
         DepthFunc |-> "D3D10_COMPARISON_ALWAYS",
         StencilEnable |-> pass_info.stencil_enable,
         StencilReadMask |-> pass_info.stencil_read_mask,
         StencilWriteMask |-> pass_info.stencil_write_mask,
         FrontFace |-> face, BackFace |-> face]

\* a creation call the device is asked for
Creation(op, desc) == [op |-> op, desc |-> desc]

\* the state object a successful creation call returns: a new object each time
Created(dev, kind, op, desc) == Object(kind, desc, Count(dev, Creation(op, desc)))

\* d3d10_pass_data after construction
d3d10_pass_data ==
    [blend_state |-> NULL, depth_stencil_state |-> NULL, pixel_shader |-> NULL, vertex_shader |-> NULL,
     render_targets |-> [k \in 1..D3D10_SIMULTANEOUS_RENDER_TARGET_COUNT |-> NULL],
     render_target_resources |-> [k \in 1..D3D10_SIMULTANEOUS_RENDER_TARGET_COUNT |-> NULL],
     shader_resources |-> << >>]

\* a cache key that also depends on the slot the sampler is bound to
sampler_key_per_binding(info) == desc_hash(sampler_desc(info) \o U32(info.binding))

\* the hash of the descriptor of each sampler configuration of the effects
hash_of_config == [cfg \in SamplerConfigs |-> desc_hash(sampler_desc(cfg))]

\* the key under which the sampler cache files the sampler of 'info': the
\* hash of its descriptor
sampler_key(info) == hash_of_config[ConfigOf(info)]

\* a sampler loop that binds whatever slot the sampler declares
exceeds_slots_unchecked(info) == FALSE

\* the sampler declares a sampler slot or a texture slot the backend has not
exceeds_slots(info) ==
    \/ info.binding >= D3D10_COMMONSHADER_SAMPLER_SLOT_COUNT
    \/ info.texture_binding >= D3D10_COMMONSHADER_INPUT_RESOURCE_SLOT_COUNT

\* One iteration of the sampler loop.  S carries technique_init, the sampler
\* cache, the device's record, and whether the loop has returned false or
\* has written out of range.
sampler_step(S, info, n, fail) ==
    IF S.returned \/ S.fault THEN S
    ELSE IF exceeds_slots(info) THEN [S EXCEPT !.returned = TRUE]
    ELSE IF info.texture_binding >= Len(S.texture_bindings) \/ info.binding >= Len(S.sampler_states)
         THEN [S EXCEPT !.fault = TRUE]
    ELSE LET srv == textures[info.texture_name].impl.srv[IF info.srgb THEN 2 ELSE 1]
             bound == [S EXCEPT !.texture_bindings[info.texture_binding + 1] = srv]
             desc == [bytes |-> sampler_desc(info)]
             key == sampler_key(info)
         IN  IF S.sampler_states[info.binding + 1] # NULL THEN bound
             ELSE IF key \in DOMAIN S.cache
                  THEN [bound EXCEPT !.sampler_states[info.binding + 1] = S.cache[key]]
             ELSE IF fail = FailAt("sampler", n, 0, 0) THEN [bound EXCEPT !.returned = TRUE]
             ELSE LET sampler == Created(S.dev, "sampler", "CreateSamplerState", desc)
                  IN  [bound EXCEPT
                         !.cache = [h \in DOMAIN S.cache \cup {key} |-> IF h = key THEN sampler ELSE S.cache[h]],
                         !.dev = Record(S.dev, Creation("CreateSamplerState", desc)),
                         !.sampler_states[info.binding + 1] = sampler]

RECURSIVE sampler_loop(_, _, _, _)
sampler_loop(S, samplers, n, fail) ==
    IF n > Len(samplers) THEN S
    ELSE The({ IF next.returned THEN next ELSE sampler_loop(next, samplers, n + 1, fail) :
                 next \in { sampler_step(S, samplers[n], n, fail) } })

\* a call of init_effect on the device for a render target view of texture
\* 'name', made in pass j of technique t
ViewCall(op, name, target_index, t, j, ok) ==
    [op |-> op, name |-> name, target_index |-> target_index, technique |-> t, pass |-> j, ok |-> ok]

\* a render target loop that creates and clears a view for every target
render_target_step_recreating(P, pass_info, t, j, k, fail) ==
    LET name == pass_info.render_target_names[k]
        target_index == IF pass_info.srgb_write_enable THEN 2 ELSE 1
        texture_impl == P.tex[name].impl
        format == texture_dxgi_format(TextureTable(name).format)
        rtv == RTV(texture_impl.texture,
                   IF pass_info.srgb_write_enable THEN make_dxgi_format_srgb(format)
                   ELSE make_dxgi_format_normal(format))
    IN  IF texture_impl.texture = NULL THEN [P EXCEPT !.fault = TRUE]
        ELSE [P EXCEPT !.tex[name].impl.rtv[target_index] = rtv,
                       !.pass_data.render_targets[k] = rtv,
                       !.pass_data.render_target_resources[k] = texture_impl.srv[target_index],
                       !.views = @ \o << ViewCall("CreateRenderTargetView", name, target_index, t, j, TRUE),
                                         ViewCall("ClearRenderTargetView", name, target_index, t, j, TRUE) >>]

\* One iteration of the render target loop of pass (t, j), for target k.
\* P carries pass_data, the texture table, the calls made for render target
\* views, and whether the loop has returned false or has dereferenced a null
\* texture.
render_target_step(P, pass_info, t, j, k, fail) ==
    LET name == pass_info.render_target_names[k]
        target_index == IF pass_info.srgb_write_enable THEN 2 ELSE 1
        texture_impl == P.tex[name].impl
        format == texture_dxgi_format(TextureTable(name).format)
        rtv_format == IF pass_info.srgb_write_enable THEN make_dxgi_format_srgb(format)
                      ELSE make_dxgi_format_normal(format)
        create == texture_impl.rtv[target_index] = NULL
        rtv == IF create THEN RTV(texture_impl.texture, rtv_format)
               ELSE texture_impl.rtv[target_index]
    IN  IF texture_impl.texture = NULL THEN [P EXCEPT !.fault = TRUE]
        ELSE IF create /\ fail = FailAt("rtv", t, j, k)
             THEN [P EXCEPT !.returned = TRUE,
                            !.views = Append(@, ViewCall("CreateRenderTargetView", name, target_index, t, j, FALSE))]
        ELSE [P EXCEPT !.tex[name].impl.rtv[target_index] = rtv,
                       !.pass_data.render_targets[k] = rtv,
                       !.pass_data.render_target_resources[k] = texture_impl.srv[target_index],
                       !.views = IF create
                                 THEN @ \o << ViewCall("CreateRenderTargetView", name, target_index, t, j, TRUE),
                                              ViewCall("ClearRenderTargetView", name, target_index, t, j, TRUE) >>
                                 ELSE @]

RECURSIVE render_target_loop(_, _, _, _, _, _)
render_target_loop(P, pass_info, t, j, k, fail) ==
    IF k > D3D10_SIMULTANEOUS_RENDER_TARGET_COUNT THEN P
    ELSE IF pass_info.render_target_names[k] = "" THEN P
    ELSE The({ IF next.returned \/ next.fault THEN next
               ELSE render_target_loop(next, pass_info, t, j, k + 1, fail) :
                 next \in { render_target_step(P, pass_info, t, j, k, fail) } })

\* the shader resource list of a pass: the texture bindings of the technique,
\* without those whose resource is the resource of a render target of the pass
shader_resources_of(texture_bindings, render_targets) ==
    [i \in 1..Len(texture_bindings) |->
        IF /\ texture_bindings[i] # NULL
           /\ \E k \in DOMAIN render_targets :
                 /\ render_targets[k] # NULL
                 /\ GetResource(render_targets[k]) = GetResource(texture_bindings[i])
        THEN NULL ELSE texture_bindings[i]]

\* One iteration of the pass loop of technique t, for pass j.  T carries the
\* technique implementation, the texture table, the viewports of the passes
\* and the device's record.
pass_of(T, P, t, j, fail) ==
    LET pass_info == TechniqueTable(t).passes[j]
        after_targets == [T EXCEPT !.tex = P.tex, !.impl.passes[j] = P.pass_data, !.views = P.views,
                                   !.returned = P.returned, !.fault = P.fault]
        viewport == IF pass_info.render_target_names[1] = ""
                    THEN [viewport_width |-> width, viewport_height |-> height]
                    ELSE T.viewports[j]
        blend == blend_desc(pass_info)
        depth_stencil == depth_stencil_desc(pass_info)
        blend_state == Created(T.dev, "blend", "CreateBlendState", blend)
        depth_stencil_state == Created(T.dev, "depthstencil", "CreateDepthStencilState", depth_stencil)
        with_viewport == [after_targets EXCEPT !.viewports[j] = viewport]
        with_blend == [with_viewport EXCEPT
                         !.impl.passes[j].blend_state = blend_state,
                         !.dev = Record(T.dev, Creation("CreateBlendState", blend))]
    IN  IF P.returned \/ P.fault THEN after_targets
        ELSE IF fail = FailAt("blend", t, j, 0) THEN [with_viewport EXCEPT !.returned = TRUE]
        ELSE IF fail = FailAt("depth_stencil", t, j, 0) THEN [with_blend EXCEPT !.returned = TRUE]
        ELSE [with_blend EXCEPT
                !.impl.passes[j].depth_stencil_state = depth_stencil_state,
                !.dev = Record(with_blend.dev, Creation("CreateDepthStencilState", depth_stencil)),
                !.impl.passes[j].shader_resources =
                    shader_resources_of(T.impl.texture_bindings, P.pass_data.render_targets)]

\* the pass data a pass starts from: its shaders, and the back buffer as the
\* first render target
pass_start(pass_info) ==
    [d3d10_pass_data EXCEPT
        !.pixel_shader = Object("ps", pass_info.ps_entry_point, 0),
        !.vertex_shader = Object("vs", pass_info.vs_entry_point, 0),
        !.render_targets[1] = backbuffer_rtv[IF pass_info.srgb_write_enable THEN 2 ELSE 1],
        !.render_target_resources[1] = backbuffer_texture_srv[IF pass_info.srgb_write_enable THEN 2 ELSE 1]]

pass_step(T, t, j, fail) ==
    The({ pass_of(T, P, t, j, fail) :
            P \in { render_target_loop([pass_data |-> pass_start(TechniqueTable(t).passes[j]),
                                        tex |-> T.tex, views |-> T.views,
                                        returned |-> FALSE, fault |-> FALSE],
                                       TechniqueTable(t).passes[j], t, j, 1, fail) } })

RECURSIVE pass_loop(_, _, _, _)
pass_loop(T, t, j, fail) ==
    IF j > Len(TechniqueTable(t).passes) THEN T
    ELSE The({ IF next.returned \/ next.fault THEN next ELSE pass_loop(next, t, j + 1, fail) :
                 next \in { pass_step(T, t, j, fail) } })

\* the three queries of a technique implementation
QueryNames == { "timestamp_disjoint", "timestamp_query_beg", "timestamp_query_end" }

\* technique_init copied into a new technique implementation; CreateQuery
\* leaves the queries in 'qfail' null, and nothing looks at its result
d3d10_technique_data(t, technique_init, qfail) ==
    [query_in_flight |-> FALSE,
     timestamp_disjoint |-> IF "timestamp_disjoint" \in qfail THEN NULL ELSE Query(t, "timestamp_disjoint"),
     timestamp_query_beg |-> IF "timestamp_query_beg" \in qfail THEN NULL ELSE Query(t, "timestamp_query_beg"),
     timestamp_query_end |-> IF "timestamp_query_end" \in qfail THEN NULL ELSE Query(t, "timestamp_query_end"),
     sampler_states |-> technique_init.sampler_states,
     texture_bindings |-> technique_init.texture_bindings,
     passes |-> [j \in 1..Len(TechniqueTable(t).passes) |-> d3d10_pass_data]]

\* One iteration of the technique loop of init_effect(index).  E carries the
\* technique table, the texture table and the device's record.
technique_step(E, index, t, technique_init, fail, qfail) ==
    IF E.techs[t].impl # NULL \/ E.techs[t].effect_index # index THEN E
    ELSE The({ [E EXCEPT !.techs[t].impl = T.impl, !.techs[t].passes = T.viewports,
                         !.tex = T.tex, !.dev = T.dev, !.views = T.views,
                         !.returned = T.returned, !.fault = T.fault] :
                 T \in { pass_loop([impl |-> d3d10_technique_data(t, technique_init, qfail),
                                    tex |-> E.tex, dev |-> E.dev, views |-> E.views,
                                    viewports |-> E.techs[t].passes,
                                    returned |-> FALSE, fault |-> FALSE], t, 1, fail) } })

RECURSIVE technique_loop(_, _, _, _, _, _)
technique_loop(E, index, t, technique_init, fail, qfail) ==
    IF t \notin TechniqueIds THEN E
    ELSE The({ IF next.returned \/ next.fault THEN next
               ELSE technique_loop(next, index, t + 1, technique_init, fail, qfail) :
                 next \in { technique_step(E, index, t, technique_init, fail, qfail) } })

\* an init_effect that leaves the size of _effect_data alone
resized_never(data, index) == data

\* _effect_data after init_effect(index) has resized it
resized(data, index) ==
    IF index >= Len(data) THEN data \o [i \in 1..(index + 1 - Len(data)) |-> [cb |-> NULL]] ELSE data

\* the textures init_effect(index) asserts to have an implementation
textures_used(index) ==
    { EffectTable(index).samplers[i].texture_name : i \in DOMAIN EffectTable(index).samplers }
    \cup UNION { { TechniqueTable(t).passes[j].render_target_names[k] :
                      j \in DOMAIN TechniqueTable(t).passes,
                      k \in 1..D3D10_SIMULTANEOUS_RENDER_TARGET_COUNT } :
                    t \in { u \in TechniqueIds : TechniqueTable(u).effect_index = index } }

init_effect_loops(index, fail, qfail, S, E) ==
    LET effect == EffectTable(index)
        shaders_failed == fail.at \in { "compile", "shader" }
        data == resized(effect_data, index)
        has_cb == effect.uniform_data_storage # 0
        cb_failed == has_cb /\ fail.at = "cb"
        samplers_done == ~shaders_failed /\ ~cb_failed
        techniques_done == samplers_done /\ ~S.returned /\ ~S.fault
    IN  /\ loads' = loads + 1
        /\ effect_data' = IF shaders_failed THEN effect_data
                          ELSE IF has_cb /\ ~cb_failed
                               THEN [data EXCEPT ![index + 1].cb = Object("buffer", index, 0)]
                          ELSE data
        /\ effect_sampler_states' = IF samplers_done THEN S.cache ELSE effect_sampler_states
        /\ device' = IF techniques_done THEN E.dev ELSE IF samplers_done THEN S.dev ELSE device
        /\ techniques' = IF techniques_done THEN E.techs ELSE techniques
        /\ textures' = IF techniques_done THEN E.tex ELSE textures
        /\ gpu' = [t \in TechniqueIds |->
                     IF techniques_done /\ techniques[t].impl = NULL /\ E.techs[t].impl # NULL
                     THEN gpu_idle(gpu[t].pair, gpu[t].collected) ELSE gpu[t]]
        /\ fault' = ((samplers_done /\ S.fault) \/ (techniques_done /\ E.fault))
        /\ call' = [op |-> "init_effect", index |-> index, fail |-> fail,
                    result |-> (techniques_done /\ ~E.returned /\ ~E.fault),
                    views |-> IF techniques_done THEN E.views ELSE << >>]
        /\ UNCHANGED << init_vars, depth_vars >>

\* a module LoadLibraryW has loaded
Module(name) == [kind |-> "module", name |-> name]

\* the libraries that hold the HLSL compiler
CompilerLibraries == { "d3dcompiler_47.dll", "d3dcompiler_43.dll" }

\* LoadLibraryW
LoadLibraryW(name, libs) == IF name \in libs THEN Module(name) ELSE NULL

\* an init_effect that takes the compiler to be loaded
load_compiler_assumed(handle, libs) == Module("d3dcompiler_47.dll")

\* _d3d_compiler after the first lines of init_effect: the library is loaded
\* when no earlier call has loaded it, version 47 before version 43
load_compiler(handle, libs) ==
    LET first == IF handle = NULL THEN LoadLibraryW("d3dcompiler_47.dll", libs) ELSE handle
    IN  IF first = NULL THEN LoadLibraryW("d3dcompiler_43.dll", libs) ELSE first

init_effect(index, fail, qfail) ==
    LET effect == EffectTable(index)
        has_cb == effect.uniform_data_storage # 0
        compiler == load_compiler(d3d_compiler, libraries)
    IN  /\ ~fault
        /\ is_initialized
        /\ loads < MaxLoads
        /\ \A name \in textures_used(index) \ {""} : textures[name].impl # NULL
        /\ has_cb /\ index < Len(effect_data) => effect_data[index + 1].cb = NULL
        /\ fail.at \in { "compile", "shader" } => fail.i \in DOMAIN effect.entry_points
        /\ fail.at = "cb" => has_cb
        /\ d3d_compiler' = compiler
        /\ UNCHANGED libraries
        /\ IF compiler = NULL
           THEN /\ call' = [op |-> "init_effect", index |-> index, fail |-> fail, result |-> FALSE,
                            views |-> << >>]
                /\ UNCHANGED << init_vars, depth_vars, effect_vars, device, loads, gpu, fault >>
           ELSE \E S \in { sampler_loop([sampler_states |-> [i \in 1..effect.num_sampler_bindings |-> NULL],
                                         texture_bindings |-> [i \in 1..effect.num_texture_bindings |-> NULL],
                                         cache |-> effect_sampler_states, dev |-> device,
                                         returned |-> FALSE, fault |-> FALSE],
                                        effect.samplers, 1, fail) } :
                  \E E \in { technique_loop([techs |-> techniques, tex |-> textures, dev |-> S.dev,
                                             views |-> << >>, returned |-> FALSE, fault |-> FALSE],
                                            index, 1, [sampler_states |-> S.sampler_states,
                                                       texture_bindings |-> S.texture_bindings],
                                            fail, qfail) } :
                     init_effect_loops(index, fail, qfail, S, E)

\* the application directory and the system gain and lose libraries; this
\* is no call of a handler
install_libraries(libs) ==
    /\ ~fault
    /\ libs # libraries
    /\ libraries' = libs
    /\ UNCHANGED << init_vars, depth_vars, effect_vars, d3d_compiler, device, loads, gpu, call, fault >>

(***************************************************************************)
(* unload_effect and unload_effects.                                        *)
(***************************************************************************)
\* an unload_effect that deletes the implementation of every technique
unload_effect_covers_all(technique, index) == TRUE

\* unload_effect(index) deletes the implementation of this technique
unload_effect_covers(technique, index) == technique.effect_index = index

\* an unload_effect that leaves the constant buffer of the effect alone
unload_effect_keeps_cb(index, data) == FALSE

\* unload_effect(index) resets the constant buffer of the effect
unload_effect_in_range(index, data) == index < Len(data)

\* runtime::unload_effect and runtime::unload_effects (the base class) leave
\* what this runtime holds alone
runtime_unload_effect(data) == data

unload_effect(index) ==
    LET covered == { t \in TechniqueIds : unload_effect_covers(techniques[t], index) }
        data == runtime_unload_effect(effect_data)
        reset == unload_effect_in_range(index, data)
    IN  /\ ~fault
        /\ techniques' = [t \in TechniqueIds |->
                            IF t \in covered THEN [techniques[t] EXCEPT !.impl = NULL] ELSE techniques[t]]
        /\ gpu' = [t \in TechniqueIds |->
                     IF t \in covered THEN gpu_idle(gpu[t].pair, gpu[t].collected) ELSE gpu[t]]
        /\ effect_data' = IF reset /\ index < Len(data) THEN [data EXCEPT ![index + 1].cb = NULL] ELSE data
        /\ fault' = (reset /\ index >= Len(data))
        /\ call' = [op |-> "unload_effect", index |-> index,
                    again |-> call.op = "unload_effect" /\ call.index = index]
        /\ UNCHANGED << compiler_vars, init_vars, depth_vars, effect_sampler_states, textures, device, loads >>

\* _effect_sampler_states after unload_effects
unload_effects_cache(cache) == [h \in {} |-> NULL]

unload_effects ==
    /\ ~fault
    /\ techniques' = [t \in TechniqueIds |-> [techniques[t] EXCEPT !.impl = NULL]]
    /\ gpu' = [t \in TechniqueIds |-> gpu_idle(gpu[t].pair, gpu[t].collected)]
    /\ effect_data' = << >>
    /\ effect_sampler_states' = unload_effects_cache(effect_sampler_states)
    /\ device' = EmptyBag
    /\ loads' = 0
    /\ call' = [op |-> "unload_effects", again |-> call.op = "unload_effects"]
    /\ UNCHANGED << compiler_vars, init_vars, depth_vars, textures, fault >>

(***************************************************************************)
(* update_depthstencil_texture.                                             *)
(***************************************************************************)
\* a slot of a shader resource list holds the view of a depth reference
\* texture: the handles are compared, null handles as well
holds_depth_view(tex_impl, srv) == tex_impl.srv[1] = srv \/ tex_impl.srv[2] = srv

\* the depth reference textures that have an implementation
depth_references ==
    { n \in DeclaredTextures : textures[n].impl # NULL /\ TextureTable(n).impl_reference = "depth_buffer" }

update_depthstencil_texture_do(texture, fail) ==
    LET srv == IF texture # NULL /\ ~fail THEN SRV(texture, "depth", depth_views + 1) ELSE NULL
        repointed(slot) == \E n \in depth_references : holds_depth_view(textures[n].impl, slot)
    IN  /\ ~fault
        /\ is_initialized
        /\ fail => texture # NULL
        /\ texture # NULL /\ ~fail => depth_views < MaxDepthViews
        /\ IF texture = depth_texture
           THEN UNCHANGED << depth_texture, depth_texture_srv, has_depth_texture, depth_views,
                             techniques, textures >>
           ELSE /\ depth_texture' = texture
                /\ depth_texture_srv' = srv
                /\ depth_views' = IF srv # NULL THEN depth_views + 1 ELSE depth_views
                /\ IF texture # NULL /\ fail
                   THEN /\ has_depth_texture' = FALSE
                        /\ UNCHANGED << techniques, textures >>
                   ELSE /\ has_depth_texture' = TRUE
                        /\ techniques' =
                             [t \in TechniqueIds |->
                                IF techniques[t].impl = NULL THEN techniques[t]
                                ELSE [techniques[t] EXCEPT !.impl.passes =
                                        [j \in DOMAIN @ |->
                                           [@[j] EXCEPT !.shader_resources =
                                              [i \in DOMAIN @ |-> IF repointed(@[i]) THEN srv ELSE @[i]]]]]]
                        /\ textures' =
                             [n \in DeclaredTextures |->
                                IF n \in depth_references
                                THEN [textures[n] EXCEPT !.impl.srv = << srv, srv >>] ELSE textures[n]]

update_depthstencil_texture(texture, fail) ==
    /\ update_depthstencil_texture_do(texture, fail)
    /\ call' = [op |-> "update_depthstencil_texture", texture |-> texture, fail |-> fail]
    /\ UNCHANGED << compiler_vars, init_vars, tracker_vars, effect_data, effect_sampler_states, device, loads, gpu, fault >>

(***************************************************************************)
(* The depth buffer settings: the configuration and the debug menu.         *)
(***************************************************************************)
\* the values the configuration file may hold for DepthBufferClearingNumber
ConfigClearIndices == { UINT(0), UINT(1), UINT(2), UINT_MAX }

\* a load that stores the configured clear index as it is
config_clear_index_kept(value) == value

\* the clear index the load callback stores for a configured value: zero is
\* no valid clear index
config_clear_index(value) == IF value = UINT(0) THEN UINT_MAX ELSE value

\* the callback of subscribe_to_load_config: config.get leaves a variable
\* whose key the file does not hold as it is
load_config(has_key, value, preserve) ==
    /\ ~fault
    /\ depth_clear_index_override' =
         config_clear_index(IF has_key THEN value ELSE depth_clear_index_override)
    /\ preserve_depth_buffers' = IF has_key THEN preserve ELSE preserve_depth_buffers
    /\ call' = [op |-> "load_config", has_key |-> has_key, value |-> value]
    /\ UNCHANGED << compiler_vars, init_vars, depth_texture, depth_texture_srv, has_depth_texture, depth_views,
                    depth_texture_override, current_tracker, effect_vars, device, loads, gpu, fault >>

\* a checkbox that shows 'value' was clicked: the value it hands back
checkbox_clicked(value) == ~value

\* draw_depth_debug_menu with the clicks of one frame: the checkbox of
\* _preserve_depth_buffers, the checkbox of one depth texture (NULL: none)
\* and the checkbox of CLEAR clear_index (0: none), which is drawn only
\* while depth buffers are preserved
draw_depth_debug_menu(high_network_activity, toggle_preserve, texture, clear_index) ==
    LET preserve == IF toggle_preserve THEN checkbox_clicked(preserve_depth_buffers)
                    ELSE preserve_depth_buffers
    IN  /\ ~fault
        /\ clear_index # 0 => preserve
        /\ IF high_network_activity
           THEN UNCHANGED << tracker_vars, fault >>
           ELSE IF ~current_tracker
           THEN fault' = TRUE /\ UNCHANGED tracker_vars
           ELSE /\ preserve_depth_buffers' = preserve
                /\ depth_texture_override' =
                     IF texture = NULL THEN depth_texture_override
                     ELSE IF checkbox_clicked(depth_texture_override = texture) THEN texture ELSE NULL
                /\ depth_clear_index_override' =
                     IF clear_index = 0 THEN depth_clear_index_override
                     ELSE IF checkbox_clicked(depth_clear_index_override = UINT(clear_index))
                          THEN UINT(clear_index) ELSE UINT_MAX
                /\ UNCHANGED << current_tracker, fault >>
        /\ call' = [op |-> "draw_depth_debug_menu", high_network_activity |-> high_network_activity,
                    clear_index |-> clear_index]
        /\ UNCHANGED << compiler_vars, init_vars, depth_texture, depth_texture_srv, has_depth_texture, depth_views,
                        effect_vars, device, loads, gpu >>

(***************************************************************************)
(* on_present.                                                              *)
(***************************************************************************)
\* runtime::update_and_render_effects and runtime::on_present (the base
\* class): the techniques are rendered by render_technique, call by call
runtime_update_and_render_effects == << "update_and_render_effects", "runtime::on_present" >>

\* the device calls that stretch the intermediate texture back into the back
\* buffer
copy_to_backbuffer ==
    << "CopyResource", "IASetInputLayout", "IASetVertexBuffers", "IASetPrimitiveTopology",
       "VSSetShader", "GSSetShader", "PSSetShader", "PSSetSamplers", "PSSetShaderResources",
       "RSSetState", "RSSetViewports", "OMSetBlendState", "OMSetDepthStencilState",
       "OMSetRenderTargets", "Draw" >>

\* an on_present that returns once the effects are rendered
on_present_ops_returning(new_view) ==
    (IF new_view THEN << "CreateShaderResourceView" >> ELSE << >>)
    \o << "capture", "OMSetRenderTargets" >> \o runtime_update_and_render_effects

\* the operations of on_present on the device and on the state block of the
\* application, in order, when the depth buffer the tracker selected needs a
\* new view or not
on_present_ops(new_view) ==
    (IF new_view THEN << "CreateShaderResourceView" >> ELSE << >>)
    \o << "capture" >>
    \o (IF backbuffer_resolved # backbuffer THEN << "ResolveSubresource" >> ELSE << >>)
    \o << "OMSetRenderTargets" >>
    \o runtime_update_and_render_effects
    \o (IF backbuffer_resolved # backbuffer THEN copy_to_backbuffer ELSE << >>)
    \o << "apply_and_release" >>

\* on_present: 'texture' is what the tracker finds to be the best depth
\* texture, 'fail' whether the creation of its view fails
on_present(texture, high_network_activity, fail) ==
    LET selected == IF high_network_activity THEN NULL ELSE texture
    IN  /\ ~fault
        /\ IF ~is_initialized
           THEN /\ call' = [op |-> "on_present", ran |-> FALSE, ops |-> << >>]
                /\ UNCHANGED << depth_vars, techniques, textures >>
           ELSE /\ update_depthstencil_texture_do(selected, fail)
                /\ current_tracker' = TRUE
                /\ call' = [op |-> "on_present", ran |-> TRUE,
                            assertion |-> depth_clear_index_override # UINT(0),
                            selected |-> selected,
                            clear_index |-> IF preserve_depth_buffers THEN depth_clear_index_override
                                            ELSE UINT(0),
                            ops |-> on_present_ops(selected # depth_texture /\ selected # NULL)]
                /\ UNCHANGED << depth_texture_override, depth_clear_index_override, preserve_depth_buffers >>
        /\ UNCHANGED << compiler_vars, init_vars, effect_data, effect_sampler_states, device, loads, gpu, fault >>

(***************************************************************************)
(* upload_texture.                                                          *)
(***************************************************************************)
\* the pixels a caller uploads: four bytes a pixel, every byte of a buffer
\* different from the others
SourcePixels(info, seed) == [i \in 1..(info.width * info.height * 4) |-> (seed + 3 * i) % 256]

\* the bytes of a pixel upload_texture keeps for a format, 0 for a format it
\* does not support
upload_bytes(format) ==
    CASE format = "r8" -> 1
      [] format = "rg8" -> 2
      [] format = "rgba8" -> 4
      [] OTHER -> 0

\* an upload that hands the first bytes of the source to the device
upload_data_first(info, pixels) ==
    [k \in 1..(info.width * info.height * upload_bytes(info.format)) |-> pixels[k]]

\* the bytes UpdateSubresource reads: upload_data after the loop of the
\* format, the pixels of the caller for rgba8
upload_data(info, pixels) ==
    CASE info.format = "r8" ->
           [k \in 1..(info.width * info.height) |-> pixels[(k - 1) * 4 + 1]]
      [] info.format = "rg8" ->
           [k \in 1..(info.width * 2 * info.height) |-> pixels[((k - 1) \div 2) * 4 + ((k - 1) % 2) + 1]]
      [] info.format = "rgba8" ->
           [k \in 1..(info.width * 4 * info.height) |-> pixels[k]]

\* the calls upload_texture makes on the device
upload_texture_ops(info, impl, pixels) ==
    IF upload_bytes(info.format) = 0 THEN << >>
    ELSE << [op |-> "UpdateSubresource", texture |-> impl.texture, data |-> upload_data(info, pixels),
             pitch |-> info.width * upload_bytes(info.format)] >>
         \o (IF info.levels > 1 THEN << [op |-> "GenerateMips", srv |-> impl.srv[1]] >> ELSE << >>)

upload_texture(name, seed) ==
    LET info == TextureTable(name)
    IN  /\ ~fault
        /\ textures[name].impl # NULL
        /\ info.impl_reference = "none"
        /\ \E pixels \in { SourcePixels(info, seed) } :
              call' = [op |-> "upload_texture", name |-> name, pixels |-> pixels,
                       ops |-> upload_texture_ops(info, textures[name].impl, pixels)]
        /\ UNCHANGED << compiler_vars, init_vars, depth_vars, effect_vars, device, loads, gpu, fault >>

(***************************************************************************)
(* capture_screenshot.                                                      *)
(***************************************************************************)
\* dxgi_format_color_depth: the bits of a colour channel of a format
dxgi_format_color_depth(format) == IF format = "R10G10B10A2_UNORM" THEN 10 ELSE 8

\* _color_bit_depth, which on_init sets together with _backbuffer_format
color_bit_depth == dxgi_format_color_depth(backbuffer_format)

\* the channels of the pixels a back buffer holds: 10 bits of red, green and
\* blue and 2 bits of alpha
Channels10 == { 3, 4, 1023 }
Pixels == [r : Channels10, g : Channels10, b : Channels10, a : { 0, 3 }]

\* the four bytes of a pixel in memory, least significant first: red in bits
\* 0 to 9, green in bits 10 to 19, blue in bits 20 to 29, alpha above
pixel_bytes(pixel) ==
    LET lo == pixel.r + (pixel.g % 64) * 1024
        hi == (pixel.g \div 64) + pixel.b * 16 + pixel.a * 16384
    IN  << lo % 256, lo \div 256, hi % 256, hi \div 256 >>

\* the pixel of a test image at column x of row y: the image alternates
\* between a pixel and the pixel with red and blue exchanged
pixel_at(pixel, x, y) ==
    IF (x + y) % 2 = 0 THEN pixel ELSE [pixel EXCEPT !.r = pixel.b, !.b = pixel.r]

\* the mapped staging texture: rows of RowPitch bytes, the bytes behind the
\* pixels of a row being padding
mapped_texture(pixel, padding) ==
    [y \in 1..height |->
       [i \in 1..(width * 4 + padding) |->
          IF i > width * 4 THEN 205
          ELSE pixel_bytes(pixel_at(pixel, (i - 1) \div 4, y - 1))[((i - 1) % 4) + 1]]]

\* *reinterpret_cast<const uint32_t *>(mapped_data + x) as two limbs of 16
\* bits, least significant first
read_uint32(mapped_data, x) ==
    << mapped_data[x + 1] + 256 * mapped_data[x + 2], mapped_data[x + 3] + 256 * mapped_data[x + 4] >>

\* rgba & 0x3FF, (rgba & 0xFFC00) >> 10 and (rgba & 0x3FF00000) >> 20
channel10(rgba, k) ==
    CASE k = 0 -> rgba[1] % 1024
      [] k = 1 -> (rgba[1] \div 1024) + (rgba[2] % 16) * 64
      [] k = 2 -> (rgba[2] \div 16) % 1024

\* a conversion that rounds to the nearest value
divide_by_4_rounded(channel) == ((channel + 2) \div 4) % 256

\* (channel / 4) & 0xFF
divide_by_4(channel) == (channel \div 4) % 256

\* byte i of a row of the buffer for a back buffer of 10 bits a channel
capture_row_10(mapped_data, i) ==
    LET k == (i - 1) % 4
    IN  IF k = 3 THEN 255
        ELSE divide_by_4(channel10(read_uint32(mapped_data, i - 1 - k), k))

\* byte i of a row of the buffer for the other back buffers: the copy, the
\* alpha channel and the exchange of red and blue
capture_row_8(mapped_data, i) ==
    LET k == (i - 1) % 4
    IN  IF k = 3 THEN 255
        ELSE IF backbuffer_format \in { "B8G8R8A8_UNORM", "B8G8R8A8_UNORM_SRGB" }
        THEN mapped_data[i - k + (2 - k)]
        ELSE mapped_data[i]

\* the buffer of the caller before the call
buffer_untouched == [i \in 1..(width * height * 4) |-> 0]

\* the buffer after the loop over the rows
captured(mapped) ==
    [i \in 1..(width * height * 4) |->
       LET row == mapped[((i - 1) \div (width * 4)) + 1]
           x == ((i - 1) % (width * 4)) + 1
       IN  IF color_bit_depth = 10 THEN capture_row_10(row, x) ELSE capture_row_8(row, x)]

\* capture_screenshot of a back buffer that holds the test image of 'pixel';
\* 'fail' names the call that fails
capture_screenshot(pixel, padding, fail) ==
    /\ ~fault
    /\ is_initialized
    /\ \E mapped \in { mapped_texture(pixel, padding) } :
          call' = [op |-> "capture_screenshot", pixel |-> pixel, format |-> backbuffer_format,
                   result |-> fail = "none",
                   buffer |-> IF fail = "none" THEN captured(mapped) ELSE buffer_untouched]
    /\ UNCHANGED << compiler_vars, init_vars, depth_vars, effect_vars, device, loads, gpu, fault >>

(***************************************************************************)
(* render_technique and the GPU.                                            *)
(***************************************************************************)
\* a poll that is content with the result of the disjoint query
poll_disjoint_only(ready) == "timestamp_disjoint" \in ready

\* the non-blocking poll of render_technique finds the results of all three
\* queries (GetData returns S_OK for each)
poll(ready) ==
    /\ "timestamp_disjoint" \in ready
    /\ "timestamp_query_beg" \in ready
    /\ "timestamp_query_end" \in ready

\* the queries the poll asks, in order: it stops at the first without result
polled(ready) ==
    IF "timestamp_disjoint" \notin ready THEN << "timestamp_disjoint" >>
    ELSE IF "timestamp_query_beg" \notin ready THEN << "timestamp_disjoint", "timestamp_query_beg" >>
    ELSE << "timestamp_disjoint", "timestamp_query_beg", "timestamp_query_end" >>

\* a collection that appends a sample whatever the disjoint query reports
appended_always(collected, disjoint) == IF collected THEN 1 ELSE 0

\* a collection that drops every sample
appended_never(collected, disjoint) == 0

\* the number of samples render_technique appends to average_gpu_duration
appended(collected, disjoint) == IF collected /\ ~disjoint THEN 1 ELSE 0

\* what one pass of render_technique binds and clears: the depth-stencil view
\* bound with the render targets and whether the stencil was cleared
\* the device calls of a pass between the binding of the render targets and
\* the draw
render_pass_ops(pass_info, pass_data, stencil_cleared) ==
    << "OMSetRenderTargets" >>
    \o (IF stencil_cleared THEN << "ClearDepthStencilView" >> ELSE << >>)
    \o (IF pass_info.clear_render_targets
        THEN [k \in 1..Cardinality({ i \in DOMAIN pass_data.render_targets :
                                       pass_data.render_targets[i] # NULL }) |-> "ClearRenderTargetView"]
        ELSE << >>)
    \o << "RSSetViewports", "Draw", "OMSetRenderTargets" >>

\* a pass that clears the stencil whenever it binds the depth-stencil view
render_pass_clearing(pass_info, pass_data, viewport, cleared_before) ==
    LET full == viewport.viewport_width = width /\ viewport.viewport_height = height
    IN  [depth_stencil_view |-> IF full /\ pass_info.stencil_enable THEN effect_depthstencil ELSE NULL,
         stencil_cleared |-> full /\ pass_info.stencil_enable,
         ops |-> render_pass_ops(pass_info, pass_data, full /\ pass_info.stencil_enable)]

render_pass(pass_info, pass_data, viewport, cleared_before) ==
    LET full == viewport.viewport_width = width /\ viewport.viewport_height = height
        stencil_cleared == full /\ pass_info.stencil_enable /\ ~cleared_before
    IN  [depth_stencil_view |-> IF full /\ pass_info.stencil_enable THEN effect_depthstencil ELSE NULL,
         stencil_cleared |-> stencil_cleared,
         ops |-> render_pass_ops(pass_info, pass_data, stencil_cleared)]

RECURSIVE render_passes(_, _, _)
render_passes(t, j, cleared) ==
    IF j > Len(TechniqueTable(t).passes) THEN << >>
    ELSE LET pass == render_pass(TechniqueTable(t).passes[j], techniques[t].impl.passes[j],
                                 techniques[t].passes[j], cleared)
         IN  << pass >> \o render_passes(t, j + 1, cleared \/ pass.stencil_cleared)

\* the device calls of the passes, one pass after the other
RECURSIVE pass_commands(_, _)
pass_commands(passes, j) ==
    IF j > Len(passes) THEN << >> ELSE passes[j].ops \o pass_commands(passes, j + 1)

\* the timing commands and the device calls of the passes render_technique
\* issues after the poll, in order, up to the first call through a null
\* query; 'issue' tells that no query is in flight after the poll
render_commands(issue, impl, passes) ==
    LET begin == IF ~issue \/ impl.timestamp_disjoint = NULL THEN << >>
                 ELSE IF impl.timestamp_query_beg = NULL THEN << "timestamp_disjoint.Begin" >>
                 ELSE << "timestamp_disjoint.Begin", "timestamp_query_beg.End" >>
        end == IF ~issue \/ impl.timestamp_query_end = NULL THEN << >>
               ELSE << "timestamp_query_end.End", "timestamp_disjoint.End" >>
    IN  IF issue /\ NULL \in { impl.timestamp_disjoint, impl.timestamp_query_beg } THEN begin
        ELSE begin \o pass_commands(passes, 1) \o end

render_technique(t) ==
    LET technique == techniques[t]
        impl == technique.impl
        entry_in_flight == impl.query_in_flight
        collected == entry_in_flight /\ poll(gpu[t].ready)
        issue == ~entry_in_flight \/ collected
        null_query == \/ entry_in_flight /\ impl.timestamp_disjoint = NULL
                      \/ entry_in_flight /\ "timestamp_disjoint" \in gpu[t].ready
                           /\ impl.timestamp_query_beg = NULL
                      \/ entry_in_flight /\ { "timestamp_disjoint", "timestamp_query_beg" } \subseteq gpu[t].ready
                           /\ impl.timestamp_query_end = NULL
                      \/ issue /\ NULL \in { impl.timestamp_disjoint, impl.timestamp_query_beg,
                                             impl.timestamp_query_end }
        samples == appended(collected, gpu[t].disjoint)
    IN  /\ ~fault
        /\ is_initialized
        /\ impl # NULL
        /\ issue => gpu[t].pair < MaxPairs
        /\ IF technique.effect_index >= Len(effect_data) \/ null_query
           THEN /\ fault' = TRUE
                /\ call' = [op |-> "render_technique", technique |-> t,
                            entry_in_flight |-> entry_in_flight, collected |-> collected,
                            commands |-> IF technique.effect_index >= Len(effect_data)
                                            \/ (entry_in_flight /\ ~collected)
                                         THEN << >>
                                         ELSE render_commands(issue, impl, render_passes(t, 1, FALSE))]
                /\ UNCHANGED << techniques, gpu >>
           ELSE /\ techniques' = [techniques EXCEPT ![t].impl.query_in_flight = TRUE,
                                                    ![t].average_gpu_duration = @ + samples]
                /\ gpu' = IF issue
                          THEN [gpu EXCEPT ![t] = gpu_idle(gpu[t].pair + 1,
                                                           IF collected THEN gpu[t].pair ELSE gpu[t].collected)]
                          ELSE gpu
                /\ call' = [op |-> "render_technique", technique |-> t,
                            entry_in_flight |-> entry_in_flight,
                            polled |-> IF entry_in_flight THEN polled(gpu[t].ready) ELSE << >>,
                            ready |-> gpu[t].ready,
                            pair_polled |-> IF entry_in_flight THEN gpu[t].pair ELSE 0,
                            last_collected |-> gpu[t].collected,
                            collected |-> collected,
                            reported_disjoint |-> entry_in_flight /\ gpu[t].disjoint,
                            disjoint |-> collected /\ gpu[t].disjoint,
                            appended |-> samples,
                            issued |-> IF issue
                                       THEN << "timestamp_disjoint.Begin", "timestamp_query_beg.End",
                                               "timestamp_query_end.End", "timestamp_disjoint.End" >>
                                       ELSE << >>,
                            pair_issued |-> IF issue THEN gpu[t].pair + 1 ELSE 0,
                            passes |-> render_passes(t, 1, FALSE),
                            commands |-> render_commands(issue, impl, render_passes(t, 1, FALSE))]
                /\ UNCHANGED fault
        /\ UNCHANGED << compiler_vars, init_vars, depth_vars, effect_data, effect_sampler_states, textures, device, loads >>

\* the GPU produces the result of one query of the outstanding pair of a
\* technique; the disjoint query reports whether the interval was disjoint
query_completes(t, query, disjoint) ==
    /\ ~fault
    /\ techniques[t].impl # NULL
    /\ techniques[t].impl.query_in_flight
    /\ query \notin gpu[t].ready
    /\ query # "timestamp_disjoint" => ~disjoint
    /\ gpu' = [gpu EXCEPT ![t].ready = @ \cup {query},
                          ![t].disjoint = IF query = "timestamp_disjoint" THEN disjoint ELSE @]
    /\ UNCHANGED << compiler_vars, init_vars, depth_vars, effect_vars, device, loads, call, fault >>

(***************************************************************************)
(* Specifications.                                                          *)
(***************************************************************************)
\* The life of the runtime: initialization with and without a failing call,
\* reset, creation and destruction of the textures of the first effect,
\* loading with and without a failing call and unloading of that effect,
\* changes of the depth buffer, in any order.
Next ==
    \/ \E fail \in { "none", "rtv1" } : on_init("R8G8B8A8_UNORM", 1, FALSE, fail)
    \/ on_reset
    \/ \E name \in { "T", "D" } : init_texture(name, "none")
    \/ \E name \in { "T", "D" } : destroy_texture(name)
    \/ \E texture \in { Resource("depth1"), NULL } : update_depthstencil_texture(texture, FALSE)
    \/ \E fail \in { NoFail, FailAt("blend", 1, 2, 0) } : init_effect(0, fail, {})
    \/ \E index \in 0..1 : unload_effect(index)
    \/ unload_effects

Spec == Init /\ [][Next]_vars

\* The timing of techniques: the runtime is initialized, the textures are
\* created and the effects are loaded once, in order and without failure;
\* then techniques of both effects are rendered frame after frame while the
\* GPU produces the results of their queries.
TimedTechniques == { 1, 2 }

NextTiming ==
    \/ on_init("R8G8B8A8_UNORM", 1, FALSE, "none")
    \/ \E name \in TextureNames : init_texture(name, "none")
    \/ \E index \in EffectIndices : loads = index /\ init_effect(index, NoFail, {})
    \/ \E t \in TimedTechniques : render_technique(t)
    \/ \E t \in TimedTechniques, query \in QueryNames, disjoint \in BOOLEAN :
          query_completes(t, query, disjoint)

SpecTiming == Init /\ [][NextTiming]_vars

\* an effect none of whose techniques has an implementation
not_loaded(index) ==
    \A t \in TechniqueIds : techniques[t].effect_index = index => techniques[t].impl = NULL

\* The depth buffer: the runtime is initialized and the textures are created;
\* the effects are loaded once each, in any order, while the depth buffer in
\* use changes, before, between and after the loads.
NextDepth ==
    \/ on_init("R8G8B8A8_UNORM", 1, FALSE, "none")
    \/ \E name \in TextureNames : init_texture(name, "none")
    \/ \E texture \in DepthTextures \cup {NULL}, fail \in BOOLEAN : update_depthstencil_texture(texture, fail)
    \/ \E index \in EffectIndices : not_loaded(index) /\ init_effect(index, NoFail, {})

SpecDepth == Init /\ [][NextDepth]_vars

\* The loading and unloading of effects: the runtime is initialized and the
\* textures are created; effects are loaded, with and without a failing
\* call, and unloaded, one at a time and all at once.
EffectFails ==
    { NoFail, FailAt("compile", 1, 0, 0), FailAt("shader", 2, 0, 0), FailAt("cb", 0, 0, 0),
      FailAt("sampler", 2, 0, 0), FailAt("rtv", 1, 1, 1), FailAt("blend", 1, 2, 0),
      FailAt("depth_stencil", 3, 1, 0) }

NextEffects ==
    \/ on_init("R8G8B8A8_UNORM", 1, FALSE, "none")
    \/ \E name \in TextureNames : init_texture(name, "none")
    \/ \E index \in EffectIndices, fail \in EffectFails : init_effect(index, fail, {})
    \/ \E index \in 0..2 : unload_effect(index)
    \/ unload_effects

SpecEffects == Init /\ [][NextEffects]_vars

\* The textures: the runtime is initialized for any back buffer, with and
\* without a failing call, and reset; textures of every format and the
\* references to the back buffer and to the depth buffer are created, with
\* and without a failing call, and destroyed, a few at a time, while the
\* depth buffer in use changes.
MaxTextures == 1

NextTextures ==
    \/ \E format \in BackbufferFormats, fail \in { "none", "srv0", "srv1" } :
          on_init(format, 1, TRUE, fail)
    \/ on_reset
    \/ \E name \in DeclaredTextures, fail \in { "none" } \cup Range(TextureSteps) :
          /\ Cardinality({ n \in DeclaredTextures : textures[n].impl # NULL }) < MaxTextures
          /\ init_texture(name, fail)
    \/ \E name \in DeclaredTextures : textures[name].impl # NULL /\ destroy_texture(name)
    \/ \E texture \in { Resource("depth1"), NULL } : update_depthstencil_texture(texture, FALSE)

SpecTextures == Init /\ [][NextTextures]_vars

(***************************************************************************)
(* The timing query lifecycle.                                              *)
(***************************************************************************)
\* the last call was a render_technique that ran to its end
rendered == call.op = "render_technique" /\ ~fault

\* C1: when render_technique finds the technique in flight and the poll
\* finds one of the three queries without result, the call issues no Begin
\* or End on the queries, appends no sample and leaves the technique in
\* flight for the same pair; a technique never has more than one timestamp
\* pair outstanding.
C1_NotReadyKeepsPair ==
    /\ \A t \in TechniqueIds : gpu[t].pair - gpu[t].collected <= 1
    /\ rendered /\ call.entry_in_flight /\ call.ready # QueryNames =>
         /\ call.issued = << >>
         /\ call.pair_issued = 0
         /\ call.appended = 0
         /\ ~call.collected
         /\ techniques[call.technique].impl.query_in_flight
         /\ gpu[call.technique].pair = call.pair_polled

\* a poll that found the disjoint and the begin query ready, not the end query
C1_Witness ==
    /\ rendered /\ call.entry_in_flight
    /\ call.ready = { "timestamp_disjoint", "timestamp_query_beg" }
    /\ call.polled = << "timestamp_disjoint", "timestamp_query_beg", "timestamp_query_end" >>
    /\ call.pair_polled = 2

\* C2 as stated: when render_technique finds the technique in flight and the
\* results of its pair available, exactly one sample is appended and the
\* technique is idle, no pair outstanding, on return.
C2_OneSampleThenIdle ==
    rendered /\ call.entry_in_flight /\ call.ready = QueryNames =>
        /\ call.appended = 1
        /\ ~techniques[call.technique].impl.query_in_flight

\* C2 as amended: when render_technique finds the technique in flight and
\* the results of its pair available, and the disjoint query reports no
\* disjoint interval, exactly one sample is appended; the pair is retired,
\* and the same call issues the next pair, so that the technique is in flight
\* for the new pair on return.
C2_OneSampleThenNextPair ==
    rendered /\ call.entry_in_flight /\ call.ready = QueryNames /\ ~call.reported_disjoint =>
        /\ call.appended = 1
        /\ techniques[call.technique].average_gpu_duration >= 1
        /\ gpu[call.technique].collected = call.pair_polled
        /\ call.pair_issued = call.pair_polled + 1
        /\ Len(call.issued) = 4
        /\ techniques[call.technique].impl.query_in_flight

\* a call that collected a result that was not disjoint
C2_Witness ==
    /\ rendered /\ call.entry_in_flight /\ call.ready = QueryNames /\ ~call.reported_disjoint
    /\ call.appended = 1
    /\ techniques[call.technique].average_gpu_duration = 2

\* C3: when the collected results report a disjoint interval render_technique
\* appends no sample and the pair counts as collected; no poll ever asks for
\* a pair that was collected: a later poll is for a pair issued after it.
C3_DisjointDiscarded ==
    /\ rendered /\ call.collected /\ call.disjoint =>
         /\ call.appended = 0
         /\ gpu[call.technique].collected = call.pair_polled
         /\ gpu[call.technique].pair > call.pair_polled
    /\ rendered /\ call.entry_in_flight => call.pair_polled > call.last_collected

\* a disjoint result was collected, and the next poll was for the next pair
C3_Witness ==
    /\ rendered /\ call.collected /\ call.disjoint
    /\ call.pair_polled = 2
    /\ call.last_collected = 1
    /\ techniques[call.technique].average_gpu_duration = 0

(***************************************************************************)
(* Aliasing of shader resources and render targets.                         *)
(***************************************************************************)
\* the techniques that have an implementation
loaded == { t \in TechniqueIds : techniques[t].impl # NULL }

\* the passes of a technique implementation that init_effect has completed
completed_passes(t) ==
    { j \in DOMAIN techniques[t].impl.passes : techniques[t].impl.passes[j].depth_stencil_state # NULL }

\* the view and one of the render targets are views of the same resource
aliases(srv, render_targets) ==
    /\ srv # NULL
    /\ \E k \in DOMAIN render_targets :
          render_targets[k] # NULL /\ GetResource(render_targets[k]) = GetResource(srv)

\* C4: after init_effect and any number of update_depthstencil_texture calls,
\* in every pass of every technique that has an implementation no non-null
\* shader resource is a view of the resource of a non-null render target of
\* the pass, and the slot of a texture binding that would alias a render
\* target of the pass is null.
C4_NoAliasing ==
    \A t \in loaded : \A j \in completed_passes(t) :
        LET pass_data == techniques[t].impl.passes[j]
        IN  \A i \in DOMAIN pass_data.shader_resources :
               /\ ~aliases(pass_data.shader_resources[i], pass_data.render_targets)
               /\ aliases(techniques[t].impl.texture_bindings[i], pass_data.render_targets)
                    => pass_data.shader_resources[i] = NULL

(***************************************************************************)
(* The sampler cache.                                                       *)
(***************************************************************************)
\* the sampler declarations of the effects: effect index and position
SamplerDecls == { << e, i >> : e \in EffectIndices, i \in 1..3 }
info_of(decl) == EffectTable(decl[1]).samplers[decl[2]]

\* the handles bound for a sampler declaration, one per technique of its
\* effect that has an implementation
bound_samplers(decl) ==
    { techniques[t].impl.sampler_states[info_of(decl).binding + 1] :
        t \in { u \in loaded : techniques[u].effect_index = decl[1] } }

\* the number of samplers the device was asked to create for a configuration
samplers_created(cfg) == Count(device, Creation("CreateSamplerState", [bytes |-> sampler_desc(cfg)]))

\* C5: two sampler declarations of identical configuration, of one effect or
\* of two, loaded with no unload_effects in between, are bound to the same
\* sampler object, and the device creates a sampler for a configuration at
\* most once.
C5_SameConfigSameSampler ==
    /\ \A d1, d2 \in SamplerDecls :
          ConfigOf(info_of(d1)) = ConfigOf(info_of(d2)) =>
             /\ Cardinality(bound_samplers(d1) \cup bound_samplers(d2)) <= 1
             /\ NULL \notin bound_samplers(d1)
    /\ \A cfg \in SamplerConfigs : samplers_created(cfg) <= 1

\* both effects are loaded: three declarations of configuration CfgA, two of
\* them in one effect, are bound to one sampler that was created once
C5_Witness ==
    /\ loaded = { 1, 2, 3 }
    /\ bound_samplers(<< 0, 1 >>) = bound_samplers(<< 0, 3 >>)
    /\ bound_samplers(<< 0, 1 >>) = bound_samplers(<< 1, 2 >>)
    /\ Cardinality(bound_samplers(<< 0, 1 >>)) = 1
    /\ samplers_created(CfgA) = 1
    /\ call.op = "unload_effect"

\* C6: sampler configurations whose descriptors differ in a byte are bound
\* to distinct sampler objects, and the sampler bound for a declaration was
\* created for the descriptor of that declaration.
C6_DistinctConfigDistinctSampler ==
    \A d1, d2 \in SamplerDecls :
        /\ \A sampler \in bound_samplers(d1) : sampler.desc.bytes = sampler_desc(info_of(d1))
        /\ sampler_desc(info_of(d1)) # sampler_desc(info_of(d2)) =>
              bound_samplers(d1) \cap bound_samplers(d2) = {}

(***************************************************************************)
(* Blend and depth-stencil states.                                          *)
(***************************************************************************)
\* the passes that hold a blend state, and those that hold a depth-stencil state
blended == { p \in { << t, j >> : t \in loaded, j \in 1..2 } :
               /\ p[2] \in DOMAIN techniques[p[1]].impl.passes
               /\ techniques[p[1]].impl.passes[p[2]].blend_state # NULL }
stenciled == { p \in blended : techniques[p[1]].impl.passes[p[2]].depth_stencil_state # NULL }

pass_info_of(p) == TechniqueTable(p[1]).passes[p[2]]
pass_data_of(p) == techniques[p[1]].impl.passes[p[2]]

\* the blend configuration and the depth-stencil configuration of a pass
blend_config(pass_info) ==
    << pass_info.blend_enable, pass_info.src_blend, pass_info.dest_blend, pass_info.blend_op,
       pass_info.src_blend_alpha, pass_info.dest_blend_alpha, pass_info.blend_op_alpha,
       pass_info.color_write_mask >>
stencil_config(pass_info) ==
    << pass_info.stencil_enable, pass_info.stencil_read_mask, pass_info.stencil_write_mask,
       pass_info.stencil_op_fail, pass_info.stencil_op_depth_fail, pass_info.stencil_op_pass,
       pass_info.stencil_comparison_func >>

C8_CacheScope ==
    [][ /\ call' # call /\ call'.op = "unload_effect" =>
             /\ effect_sampler_states' = effect_sampler_states
             /\ \A t \in TechniqueIds :
                   IF techniques[t].effect_index = call'.index
                   THEN techniques'[t].impl = NULL
                   ELSE techniques'[t] = techniques[t]
             /\ Len(effect_data') = Len(effect_data)
             /\ \A i \in DOMAIN effect_data :
                   IF i = call'.index + 1 THEN effect_data'[i].cb = NULL
                   ELSE effect_data'[i] = effect_data[i]
        /\ call' # call /\ call'.op = "unload_effects" =>
             /\ DOMAIN effect_sampler_states' = {}
             /\ effect_data' = << >>
             /\ \A t \in TechniqueIds : techniques'[t].impl = NULL
      ]_vars

\* effect 0 was unloaded while effect 1 is loaded: the cache still holds its
\* samplers, among them the one effect 0 had created
C8_Witness ==
    /\ call.op = "unload_effect" /\ call.index = 0
    /\ techniques[1].impl = NULL
    /\ techniques[2].impl # NULL /\ techniques[3].impl # NULL
    /\ effect_data[1].cb = NULL
    /\ Cardinality(DOMAIN effect_sampler_states) = 3
    /\ samplers_created(CfgB) = 1

(***************************************************************************)
(* The two views of a texture.                                              *)
(***************************************************************************)
\* init_texture has run to its end for the texture: a reference has its
\* views copied, an owned texture has its sRGB view set last
initialized(name) ==
    /\ textures[name].impl # NULL
    /\ TextureTable(name).impl_reference = "none" => textures[name].impl.srv[2] # NULL

\* the format of the resource the views of a texture are views of
resource_format(name) ==
    CASE TextureTable(name).impl_reference = "back_buffer" -> make_dxgi_format_typeless(backbuffer_format)
      [] TextureTable(name).impl_reference = "depth_buffer" -> "R24G8_TYPELESS"
      [] OTHER -> texture_dxgi_format(TextureTable(name).format)

\* the format has an sRGB representation of its own
has_srgb(format) == make_dxgi_format_srgb(format) # make_dxgi_format_normal(format)

\* C9: of a texture init_texture has initialized, an owned texture or a
\* reference to the back buffer or to the depth buffer, the normal view and
\* the sRGB view are the same handle when the format has no sRGB
\* representation of its own, and different handles when it has one.
C9_ViewsSharedWithoutSrgb ==
    \A name \in DeclaredTextures :
        initialized(name) /\ call.op = "init_texture" /\ call.name = name /\ call.result =>
            IF has_srgb(resource_format(name))
            THEN textures[name].impl.srv[1] # textures[name].impl.srv[2]
            ELSE textures[name].impl.srv[1] = textures[name].impl.srv[2]

(***************************************************************************)
(* Teardown.                                                                *)
(***************************************************************************)
\* everything but the record of the last call
state == << init_vars, depth_vars, effect_vars, device, loads, gpu, fault >>

\* C10: on_reset, unload_effect(index), unload_effects and destroy_texture,
\* called in any state, a runtime that was never initialized included, do not
\* fault and leave every handle they cover null or empty; called a second
\* time in a row they leave the state as the first call left it.
C10_TeardownIdempotent ==
    [][ call' # call /\ call'.op \in { "on_reset", "unload_effect", "unload_effects", "destroy_texture" } =>
          /\ ~fault'
          /\ call'.again => state' = state
          /\ call'.op = "on_reset" =>
                /\ init_handles_null'
                /\ ~has_depth_texture' /\ depth_texture_override' = NULL
                /\ ~is_initialized'
          /\ call'.op = "unload_effect" =>
                /\ \A t \in TechniqueIds :
                      techniques[t].effect_index = call'.index => techniques'[t].impl = NULL
                /\ call'.index < Len(effect_data') => effect_data'[call'.index + 1].cb = NULL
          /\ call'.op = "unload_effects" =>
                /\ \A t \in TechniqueIds : techniques'[t].impl = NULL
                /\ effect_data' = << >>
                /\ DOMAIN effect_sampler_states' = {}
          /\ call'.op = "destroy_texture" => textures'[call'.name].impl = NULL
      ]_vars

\* a second on_reset in a row, of a runtime that had been initialized, had a
\* depth buffer and has an effect loaded
C10_Witness ==
    /\ call.op = "on_reset" /\ call.again
    /\ width = OutputWidth
    /\ depth_views > 0
    /\ techniques[1].impl # NULL
    /\ init_handles_null

(***************************************************************************)
(* Failure of init_effect.                                                  *)
(***************************************************************************)
\* the step is a call of init_effect
init_effect_step == loads' = loads + 1 /\ call'.op = "init_effect"

\* C11: when init_effect(index) of an effect that is not loaded returns
\* false, whichever call failed, no technique of that effect has an
\* implementation on return.
C11_FailedEffectHasNoImpl ==
    [][ init_effect_step /\ ~call'.result /\ not_loaded(call'.index) =>
          \A t \in TechniqueIds :
             techniques[t].effect_index = call'.index => techniques'[t].impl = NULL ]_vars

\* C12: unload_effect(index) that follows an init_effect(index), whether that
\* succeeded or failed at any call, does not fault, leaves every technique of
\* the effect without implementation and the constant buffer of the effect
\* null, and leaves the techniques and the constant buffers of the other
\* effects as they were.
C12_UnloadAfterInit ==
    [][ call.op = "init_effect" /\ call'.op = "unload_effect" /\ call'.index = call.index =>
          /\ ~fault'
          /\ \A t \in TechniqueIds :
                IF techniques[t].effect_index = call'.index
                THEN techniques'[t].impl = NULL
                ELSE techniques'[t] = techniques[t]
          /\ Len(effect_data') = Len(effect_data)
          /\ \A i \in DOMAIN effect_data :
                IF i = call'.index + 1 THEN effect_data'[i].cb = NULL
                ELSE effect_data'[i] = effect_data[i]
      ]_vars

\* effect 0 was unloaded after its only load had failed at the blend state of
\* the second pass of technique 1, the first pass and the constant buffer
\* already created
C12_Witness ==
    /\ call.op = "unload_effect" /\ call.index = 0
    /\ loads = 1
    /\ Count(device, Creation("CreateBlendState", blend_desc(TechniqueTable(1).passes[1]))) = 1
    /\ Count(device, Creation("CreateDepthStencilState", depth_stencil_desc(TechniqueTable(1).passes[1]))) = 1
    /\ techniques[1].impl = NULL
    /\ Len(effect_data) = 1 /\ effect_data[1].cb = NULL

\* The creation calls: the runtime is initialized, any one of the device
\* calls of on_init failing or none; the textures are created and the
\* effects are loaded, a device call failing or not, and the device creating
\* all, some or none of the queries of the techniques.
QueryFails == { {}, { "timestamp_disjoint" }, QueryNames }

\* the effects that declare a slot the backend has not
LimitEffects == { 2, 3 }

NextCreation ==
    \/ \E fail \in { "none" } \cup Range(InitSteps) : on_init("R8G8B8A8_UNORM", 1, FALSE, fail)
    \/ \E name \in TextureNames : init_texture(name, "none")
    \/ \E index \in EffectIndices \cup LimitEffects, qfail \in QueryFails,
          fail \in { NoFail, FailAt("sampler", 2, 0, 0), FailAt("depth_stencil", 3, 1, 0) } :
            not_loaded(index) /\ init_effect(index, fail, qfail)

SpecCreation == Init /\ [][NextCreation]_vars

\* The presents: the runtime is initialized and reset, the configuration is
\* loaded, with and without the keys of the depth buffer settings, the debug
\* menu is drawn and clicked, and frames are presented while the tracker
\* selects a depth buffer or none.
NextPresent ==
    \/ \E format \in { "R8G8B8A8_UNORM", "R8G8B8A8_UNORM_SRGB" }, is_windows7 \in BOOLEAN :
          on_init(format, 1, is_windows7, "none")
    \/ on_reset
    \/ \E has_key \in BOOLEAN, value \in ConfigClearIndices, preserve \in BOOLEAN :
          load_config(has_key, value, preserve)
    \/ \E high_network_activity \in BOOLEAN, toggle_preserve \in BOOLEAN,
          texture \in { Resource("depth1"), NULL }, clear_index \in 0..MaxClears :
            draw_depth_debug_menu(high_network_activity, toggle_preserve, texture, clear_index)
    \/ \E texture \in { Resource("depth1"), NULL }, high_network_activity \in BOOLEAN, fail \in BOOLEAN :
          on_present(texture, high_network_activity, fail)
    \/ \E texture \in { Resource("depth1"), NULL }, fail \in BOOLEAN :
          update_depthstencil_texture(texture, fail)

SpecPresent == Init /\ [][NextPresent]_vars

\* C13: init_effect returns true only when every creation call it made
\* succeeded, the three queries of every technique included, and on_init
\* returns true only when every creation call it made succeeded, both views
\* of the back buffer texture included.
C13_SuccessMeansAllCreated ==
    /\ call.op = "init_effect" /\ call.result =>
          /\ call.fail = NoFail
          /\ \A t \in TechniqueIds :
                techniques[t].effect_index = call.index =>
                   /\ techniques[t].impl.timestamp_disjoint # NULL
                   /\ techniques[t].impl.timestamp_query_beg # NULL
                   /\ techniques[t].impl.timestamp_query_end # NULL
    /\ call.op = "on_init" /\ call.result =>
          /\ call.fail = "none"
          /\ backbuffer_texture_srv[1] # NULL /\ backbuffer_texture_srv[2] # NULL

(***************************************************************************)
(* The slot limits.                                                         *)
(***************************************************************************)
\* the sampler is declared at sampler slot 16 or above, or at texture slot
\* 128 or above
out_of_range(info) == info.binding >= 16 \/ info.texture_binding >= 128

\* technique_init as the sampler loop of init_effect(index) leaves it
technique_init_of(index) ==
    sampler_loop([sampler_states |-> [i \in 1..EffectTable(index).num_sampler_bindings |-> NULL],
                  texture_bindings |-> [i \in 1..EffectTable(index).num_texture_bindings |-> NULL],
                  cache |-> effect_sampler_states, dev |-> device,
                  returned |-> FALSE, fault |-> FALSE],
                 EffectTable(index).samplers, 1, NoFail)

\* C14: when a sampler of the effect declares a sampler slot at or above 16
\* or a texture slot at or above 128, init_effect returns false without a
\* fault, no technique of the effect gets an implementation, and the sampler
\* loop has written neither a sampler nor a texture binding at the slot the
\* sampler declares.
C14_SlotLimits ==
    [][ /\ init_effect_step
        /\ not_loaded(call'.index)
        /\ \E i \in DOMAIN EffectTable(call'.index).samplers :
              out_of_range(EffectTable(call'.index).samplers[i])
        => /\ ~call'.result
           /\ ~fault'
           /\ \A t \in TechniqueIds :
                 techniques[t].effect_index = call'.index => techniques'[t].impl = NULL
           /\ \E S \in { technique_init_of(call'.index) } :
                 /\ S.returned
                 /\ \A i \in DOMAIN EffectTable(call'.index).samplers :
                       \E info \in { EffectTable(call'.index).samplers[i] } :
                          out_of_range(info) =>
                             /\ info.binding + 1 \in DOMAIN S.sampler_states
                                   => S.sampler_states[info.binding + 1] = NULL
                             /\ info.texture_binding + 1 \in DOMAIN S.texture_bindings
                                   => S.texture_bindings[info.texture_binding + 1] = NULL
      ]_vars

\* init_effect of the effect that declares texture slot 128 has returned
\* false, after its first sampler, which is in range, had its sampler created
C14_Witness ==
    /\ call.op = "init_effect" /\ call.index = 3 /\ call.fail = NoFail /\ ~call.result
    /\ loads = 1
    /\ techniques[5].impl = NULL
    /\ samplers_created(CfgA) = 1
    /\ samplers_created(CfgD) = 0

count(ops, name) == Cardinality({ i \in 1..Len(ops) : ops[i] = name })

\* C16: an on_present on an initialized runtime captures the state of the
\* application once and restores it once, after every other operation of
\* the call; an on_present on a runtime that is not initialized does nothing
\* on the device and changes no state.
C16_CaptureAndRestore ==
    [][ call'.op = "on_present" =>
          IF is_initialized
          THEN /\ call'.ran
               /\ count(call'.ops, "capture") = 1
               /\ count(call'.ops, "apply_and_release") = 1
               /\ call'.ops[Len(call'.ops)] = "apply_and_release"
               /\ \E i \in 1..Len(call'.ops) :
                     /\ call'.ops[i] = "capture"
                     /\ \E j \in (i + 1)..Len(call'.ops) :
                           call'.ops[j] = "update_and_render_effects"
          ELSE /\ ~call'.ran /\ call'.ops = << >>
               /\ UNCHANGED << compiler_vars, init_vars, depth_vars, effect_vars, device, loads, gpu, fault >>
      ]_vars

\* a frame is presented through the intermediate texture while the tracker
\* hands out a depth buffer that needs a new view
C16_Witness ==
    /\ call.op = "on_present" /\ call.ran
    /\ backbuffer_resolved # backbuffer
    /\ call.selected = Resource("depth1") /\ depth_texture = Resource("depth1")
    /\ call.ops[1] = "CreateShaderResourceView"
    /\ count(call.ops, "Draw") = 1

(***************************************************************************)
(* The compiler library.                                                    *)
(***************************************************************************)
\* The compiler: the runtime is initialized and the textures are created;
\* effects are loaded and unloaded while the libraries of the compiler
\* appear and disappear.
NextCompiler ==
    \/ on_init("R8G8B8A8_UNORM", 1, FALSE, "none")
    \/ \E name \in TextureNames : init_texture(name, "none")
    \/ \E libs \in SUBSET CompilerLibraries : install_libraries(libs)
    \/ \E index \in EffectIndices, fail \in { NoFail, FailAt("compile", 1, 0, 0) } :
          init_effect(index, fail, {})
    \/ unload_effects

SpecCompiler == Init /\ [][NextCompiler]_vars

\* no library of the compiler can be loaded and none has been loaded
compiler_missing == d3d_compiler = NULL /\ libraries \cap CompilerLibraries = {}

\* C18: an init_effect while no compiler library can be loaded returns
\* false, creates nothing on the device and changes no state of the effects,
\* the techniques or the runtime, and so does every later init_effect made
\* while still no compiler library can be loaded.
C18_CompilerMissing ==
    [][ call'.op = "init_effect" /\ compiler_missing =>
          /\ ~call'.result
          /\ d3d_compiler' = NULL
          /\ UNCHANGED << init_vars, depth_vars, effect_vars, device, gpu, fault >>
      ]_vars

\* init_effect has failed for the want of a compiler while the effect and its
\* textures were ready to be loaded
C18_Witness ==
    /\ call.op = "init_effect" /\ ~call.result /\ call.fail = NoFail
    /\ compiler_missing
    /\ is_initialized
    /\ \A name \in textures_used(call.index) \ {""} : textures[name].impl # NULL
    /\ \A t \in TechniqueIds : techniques[t].impl = NULL
    /\ device = EmptyBag

\* C18 as stated: once an init_effect has failed for the want of a compiler,
\* the init_effect that follows it returns false, whatever has become of the
\* libraries in between.
C18_MissingForEver ==
    [][ call.op = "init_effect" /\ d3d_compiler = NULL /\ call'.op = "init_effect" => ~call'.result ]_vars

(***************************************************************************)
(* The screenshots.                                                         *)
(***************************************************************************)
\* The screenshots: the runtime is initialized for any back buffer format and
\* reset, and screenshots are taken of back buffers of any content, with and
\* without padded rows and failing calls.
NextScreenshot ==
    \/ \E format \in BackbufferFormats : on_init(format, 1, FALSE, "none")
    \/ on_reset
    \/ \E pixel \in Pixels, padding \in { 0, 4 }, fail \in { "none", "CreateTexture2D", "Map" } :
          capture_screenshot(pixel, padding, fail)

SpecScreenshot == Init /\ [][NextScreenshot]_vars

\* the four bytes of the buffer for the pixel in column x of row y
buffer_pixel(buffer, x, y) ==
    [k \in 1..4 |-> buffer[(y * OutputWidth + x) * 4 + k]]

\* C19: a screenshot of a back buffer of the 10-bit packed format holds for
\* every pixel the quotients of its red, green and blue channel by 4, rounded
\* down and between 0 and 255, and 255 for alpha; a pixel of 1023 in every
\* channel becomes 255, 255, 255, 255.
C19_TenBitScreenshot ==
    call.op = "capture_screenshot" /\ call.result /\ call.format = "R10G10B10A2_UNORM" =>
       \A x \in 0..(OutputWidth - 1), y \in 0..(OutputHeight - 1) :
          LET pixel == pixel_at(call.pixel, x, y)
              out == buffer_pixel(call.buffer, x, y)
          IN  /\ out = << pixel.r \div 4, pixel.g \div 4, pixel.b \div 4, 255 >>
              /\ \A k \in 1..4 : out[k] \in 0..255
              /\ pixel.r = 1023 /\ pixel.g = 1023 /\ pixel.b = 1023
                 => out = << 255, 255, 255, 255 >>

\* a screenshot of a back buffer of the 10-bit format whose pixels are 1023
\* in every channel
C19_Witness ==
    /\ call.op = "capture_screenshot" /\ call.result /\ call.format = "R10G10B10A2_UNORM"
    /\ call.pixel = [r |-> 1023, g |-> 1023, b |-> 1023, a |-> 0]
    /\ Len(call.buffer) = OutputWidth * OutputHeight * 4
    /\ \A i \in 1..Len(call.buffer) : call.buffer[i] = 255

(***************************************************************************)
(* The uploads.                                                             *)
(***************************************************************************)
UploadSeeds == { 0, 100 }

\* the textures that are uploaded to: one of one channel with mipmap levels,
\* and one of each of four formats
UploadTextures == { "R", "r8", "rg8", "rgba8", "rgba16f", "rgb10a2" }

\* The uploads: the runtime is initialized, textures of several formats are
\* created and destroyed, and pixels are uploaded to them.
NextUpload ==
    \/ on_init("R8G8B8A8_UNORM", 1, FALSE, "none")
    \/ \E name \in UploadTextures : init_texture(name, "none")
    \/ \E name \in UploadTextures : destroy_texture(name)
    \/ \E name \in UploadTextures, seed \in UploadSeeds : upload_texture(name, seed)

SpecUpload == Init /\ [][NextUpload]_vars

\* C20: upload_texture hands the device, for a texture of one channel of 8
\* bits, every fourth byte of the source in order (width * height bytes);
\* for two channels, the first two bytes of every four; for four channels,
\* the source as it is; for every other format it makes no call on the
\* device, neither an upload nor a regeneration of the mipmap levels.
C20_UploadRepacks ==
    call.op = "upload_texture" =>
       LET info == TextureTable(call.name)
           n == info.width * info.height
           src(i) == call.pixels[i + 1]
           data == call.ops[1].data
       IN  CASE info.format = "r8" ->
                  /\ call.ops[1].op = "UpdateSubresource"
                  /\ Len(data) = n
                  /\ \A k \in 0..(n - 1) : data[k + 1] = src(4 * k)
             [] info.format = "rg8" ->
                  /\ call.ops[1].op = "UpdateSubresource"
                  /\ Len(data) = 2 * n
                  /\ \A k \in 0..(n - 1) :
                        data[2 * k + 1] = src(4 * k) /\ data[2 * k + 2] = src(4 * k + 1)
             [] info.format = "rgba8" ->
                  /\ call.ops[1].op = "UpdateSubresource"
                  /\ data = call.pixels
             [] OTHER -> call.ops = << >>

\* pixels were uploaded to the texture of one channel that has mipmap levels
C20_Witness ==
    /\ call.op = "upload_texture" /\ call.name = "R"
    /\ Len(call.ops) = 2
    /\ call.ops[1].data = << 3, 15, 27, 39 >>
    /\ call.ops[2].op = "GenerateMips"

(***************************************************************************)
(* The change of the depth buffer.                                          *)
(***************************************************************************)
\* C17: an update_depthstencil_texture with a resource other than the
\* current one leaves every depth reference texture that has an
\* implementation with both views equal to the view of the new resource and
\* every slot of a pass that held the old depth view with the new one, and
\* creates nothing on the device for the techniques; with the current
\* resource it changes nothing.
C17_DepthRepointed ==
    [][ call'.op = "update_depthstencil_texture" =>
          IF call'.texture # depth_texture
          THEN /\ depth_texture' = call'.texture
               /\ \A n \in depth_references :
                     textures'[n].impl.srv = << depth_texture_srv', depth_texture_srv' >>
               /\ \A t \in TechniqueIds : techniques[t].impl # NULL =>
                     \A j \in DOMAIN techniques[t].impl.passes :
                        \A i \in DOMAIN techniques[t].impl.passes[j].shader_resources :
                           /\ depth_texture_srv # NULL
                           /\ techniques[t].impl.passes[j].shader_resources[i] = depth_texture_srv
                           => techniques'[t].impl.passes[j].shader_resources[i] = depth_texture_srv'
               /\ device' = device /\ loads' = loads
          ELSE UNCHANGED << init_vars, depth_vars, effect_vars, device, loads, gpu, fault >>
      ]_vars

(***************************************************************************)
(* The stencil of the effects.                                              *)
(***************************************************************************)
StencilEffects == { 0, 1, 4 }
StencilTechniques == { 1, 2, 3, 6 }

\* The stencil: the runtime is initialized, the textures are created, the
\* effects are loaded, and techniques whose passes test the stencil or not,
\* with the viewport of the output or of a texture, are rendered.
NextStencil ==
    \/ on_init("R8G8B8A8_UNORM", 1, FALSE, "none")
    \/ \E name \in TextureNames : init_texture(name, "none")
    \/ \E index \in StencilEffects : not_loaded(index) /\ init_effect(index, NoFail, {})
    \/ \E t \in StencilTechniques : render_technique(t)

SpecStencil == Init /\ [][NextStencil]_vars

\* pass j of technique t tests the stencil with the viewport of the output
needs_stencil(t, j) ==
    /\ TechniqueTable(t).passes[j].stencil_enable
    /\ techniques[t].passes[j].viewport_width = width
    /\ techniques[t].passes[j].viewport_height = height

\* the positions of an operation in a sequence of operations
positions(ops, name) == { i \in 1..Len(ops) : ops[i] = name }

\* C21: a render_technique clears the stencil of the depth-stencil view of
\* the effects at most once, and once exactly when a pass tests the stencil
\* with the viewport of the output: in the first such pass, before its draw;
\* the view is bound in the passes that test the stencil with the viewport
\* of the output and in no other pass.
C21_StencilClearedOnce ==
    call.op = "render_technique" /\ ~fault =>
       LET t == call.technique
           passes == call.passes
           needing == { j \in DOMAIN passes : needs_stencil(t, j) }
           clearing == { j \in DOMAIN passes : positions(passes[j].ops, "ClearDepthStencilView") # {} }
       IN  /\ Len(passes) = Len(TechniqueTable(t).passes)
           /\ Cardinality(clearing) <= 1
           /\ (clearing # {}) = (needing # {})
           /\ \A j \in clearing :
                 /\ Cardinality(positions(passes[j].ops, "ClearDepthStencilView")) = 1
                 /\ j \in needing /\ \A i \in needing : j <= i
                 /\ \A c \in positions(passes[j].ops, "ClearDepthStencilView"),
                       d \in positions(passes[j].ops, "Draw") : c < d
           /\ \A j \in DOMAIN passes :
                 passes[j].depth_stencil_view = IF j \in needing THEN effect_depthstencil ELSE NULL

\* a technique was rendered whose first pass tests the stencil with the
\* viewport of a texture and whose last two passes test it with the viewport
\* of the output
C21_Witness ==
    /\ call.op = "render_technique" /\ ~fault /\ call.technique = 6
    /\ effect_depthstencil # NULL
    /\ [j \in 1..4 |-> call.passes[j].stencil_cleared] = << FALSE, FALSE, TRUE, FALSE >>
    /\ [j \in 1..4 |-> call.passes[j].depth_stencil_view # NULL] = << FALSE, FALSE, TRUE, TRUE >>

(***************************************************************************)
(* The render target views of the textures.                                 *)
(***************************************************************************)
\* the passes that name a texture as a render target for view target_index
\* (1 without, 2 with srgb_write_enable)
naming_passes ==
    [name \in DeclaredTextures |->
       [target_index \in 1..2 |->
          { p \in UNION { { << t, j >> : j \in DOMAIN TechniqueTable(t).passes } : t \in TechniqueIds } :
              LET pass_info == TechniqueTable(p[1]).passes[p[2]]
              IN  /\ (IF pass_info.srgb_write_enable THEN 2 ELSE 1) = target_index
                  /\ \E k \in DOMAIN pass_info.render_target_names :
                        pass_info.render_target_names[k] = name }]]

naming(name, target_index) == naming_passes[name][target_index]

\* the calls of a kind init_effect has made for a view of a texture
view_calls(views, op, name, target_index) ==
    { n \in DOMAIN views :
        views[n].op = op /\ views[n].name = name /\ views[n].target_index = target_index /\ views[n].ok }

\* C22: an init_effect creates a render target view of a texture for a
\* colour space only while the texture has none, at most once and in the
\* first pass it sets up that names the texture as a render target for that
\* colour space, and clears the view once, right after its creation; a view
\* that exists is kept and not cleared; a texture that no pass names as a
\* render target for a colour space never has a view for it.
C22_ViewCreatedOnce ==
    [][ /\ init_effect_step =>
             \A name \in DeclaredTextures, i \in 1..2 : textures[name].impl # NULL =>
                LET views == call'.views
                    creates == view_calls(views, "CreateRenderTargetView", name, i)
                    clears == view_calls(views, "ClearRenderTargetView", name, i)
                    before == textures[name].impl.rtv[i]
                    after == textures'[name].impl.rtv[i]
                IN  /\ Cardinality(creates) <= 1
                    /\ clears = { n + 1 : n \in creates }
                    /\ before # NULL => creates = {} /\ after = before
                    /\ before = NULL => (after # NULL) = (creates # {})
                    /\ \A n \in creates :
                          /\ << views[n].technique, views[n].pass >> \in naming(name, i)
                          /\ \A p \in naming(name, i) :
                                /\ techniques[p[1]].effect_index = call'.index
                                /\ techniques[p[1]].impl = NULL
                                => \/ views[n].technique < p[1]
                                   \/ views[n].technique = p[1] /\ views[n].pass <= p[2]
        /\ \A name \in DeclaredTextures, i \in 1..2 :
              naming(name, i) = {} /\ textures'[name].impl # NULL => textures'[name].impl.rtv[i] = NULL
      ]_vars

\* the second effect was loaded after the first: its technique creates and
\* clears the sRGB view of a texture whose linear view the first effect had
\* created, and creates nothing for the linear view
C22_Witness ==
    /\ call.op = "init_effect" /\ call.index = 1 /\ call.result
    /\ call.views = << ViewCall("CreateRenderTargetView", "T", 2, 3, 1, TRUE),
                       ViewCall("ClearRenderTargetView", "T", 2, 3, 1, TRUE) >>
    /\ textures["T"].impl.rtv[1] # NULL /\ textures["T"].impl.rtv[2] # NULL
    /\ textures["R"].impl.rtv = << NULL, NULL >>

(***************************************************************************)
(* The timing commands of a frame.                                          *)
(***************************************************************************)
\* the queries CreateQuery fails to create in a load
TimingQueryFails == { {}, { "timestamp_disjoint" }, { "timestamp_query_beg" }, { "timestamp_query_end" } }

\* The timing commands: as for the timing of techniques, but the creation of
\* a query may fail when an effect is loaded.
NextCommands ==
    \/ on_init("R8G8B8A8_UNORM", 1, FALSE, "none")
    \/ \E name \in TextureNames : init_texture(name, "none")
    \/ \E index \in EffectIndices, qfail \in TimingQueryFails :
          loads = index /\ init_effect(index, NoFail, qfail)
    \/ \E t \in TimedTechniques : render_technique(t)
    \/ \E t \in TimedTechniques, query \in QueryNames, disjoint \in BOOLEAN :
          query_completes(t, query, disjoint)

SpecCommands == Init /\ [][NextCommands]_vars

TimingCommands ==
    { "timestamp_disjoint.Begin", "timestamp_query_beg.End", "timestamp_query_end.End",
      "timestamp_disjoint.End" }

\* C23: a render_technique issues the four timing commands or none of them:
\* when no query of the technique is in flight after the poll, the begin of
\* the disjoint query and the begin timestamp come before the first draw,
\* the end timestamp and the end of the disjoint query after the last draw;
\* otherwise none is issued.  No begin of a disjoint query stays without its
\* end, and the call returns with the queries of the technique in flight.
C23_TimingAllOrNone ==
    call.op = "render_technique" =>
       LET commands == call.commands
           timing == { i \in DOMAIN commands : commands[i] \in TimingCommands }
           draws == positions(commands, "Draw")
           idle == ~call.entry_in_flight \/ call.collected
       IN  /\ ~fault
           /\ techniques[call.technique].impl.query_in_flight
           /\ Len(commands) >= 2
           /\ IF idle
              THEN /\ timing = { 1, 2, Len(commands) - 1, Len(commands) }
                   /\ commands[1] = "timestamp_disjoint.Begin"
                   /\ commands[2] = "timestamp_query_beg.End"
                   /\ commands[Len(commands) - 1] = "timestamp_query_end.End"
                   /\ commands[Len(commands)] = "timestamp_disjoint.End"
                   /\ draws # {} /\ \A d \in draws : 2 < d /\ d < Len(commands) - 1
              ELSE timing = {}
           /\ Cardinality(positions(commands, "timestamp_disjoint.Begin"))
                = Cardinality(positions(commands, "timestamp_disjoint.End"))

(***************************************************************************)
(* The slots the change of the depth buffer touches.                        *)
(***************************************************************************)
\* C24: an update_depthstencil_texture changes a slot of a pass only if the
\* slot held the view of a depth reference texture: a slot that is null and
\* a slot that holds the view of another texture stay as they are, also when
\* the depth view in use before was null.
C24_OnlyDepthSlots ==
    [][ call'.op = "update_depthstencil_texture" =>
          \A t \in TechniqueIds : techniques[t].impl # NULL =>
             \A j \in DOMAIN techniques[t].impl.passes :
                \A i \in DOMAIN techniques[t].impl.passes[j].shader_resources :
                   LET old == techniques[t].impl.passes[j].shader_resources[i]
                   IN  techniques'[t].impl.passes[j].shader_resources[i] # old =>
                          /\ old # NULL
                          /\ \E n \in depth_references : holds_depth_view(textures[n].impl, old)
      ]_vars

(***************************************************************************)
(* The flag of the depth texture.                                           *)
(***************************************************************************)
\* C25: whatever on_present, update_depthstencil_texture and on_reset calls
\* were made, _has_depth_texture is true exactly when _depth_texture_srv is
\* not null; it is false when the selected depth resource is null and when
\* the creation of the view failed.
C25_FlagIffView ==
    /\ has_depth_texture = (depth_texture_srv # NULL)
    /\ call.op = "on_present" /\ call.ran /\ call.selected = NULL => ~has_depth_texture
    /\ call.op = "update_depthstencil_texture" /\ call.texture = NULL => ~has_depth_texture

(***************************************************************************)
(* The table of the effects.                                                *)
(***************************************************************************)
\* C26: after every init_effect, unload_effect and unload_effects, in any
\* order, the effect index of every technique that has an implementation is
\* smaller than the size of _effect_data, so that render_technique indexes
\* the table in range; the table shrinks in unload_effects only, which
\* leaves no technique with an implementation.
C26_EffectIndexInRange ==
    [][ /\ \A t \in TechniqueIds :
              techniques'[t].impl # NULL => techniques'[t].effect_index < Len(effect_data')
        /\ Len(effect_data') < Len(effect_data) =>
              /\ call'.op = "unload_effects"
              /\ \A t \in TechniqueIds : techniques'[t].impl = NULL
      ]_vars

\* the first of two loaded effects was unloaded: the table keeps its size
\* and the techniques of the second effect keep their implementation
C26_Witness ==
    /\ call.op = "unload_effect" /\ call.index = 0
    /\ techniques[1].impl = NULL
    /\ techniques[2].impl # NULL /\ techniques[3].impl # NULL
    /\ Len(effect_data) = 2

====
